---- MODULE Spec2Model ----
(***************************************************************************)
(* A model of sitetostatic: the crawl (scraper.Scrape, its queue goroutine *)
(* and its workers), the response store (repository), the canonical key    *)
(* (repository.Key, urlnorm), the rebase of URLs (urlrebase) and the HTML  *)
(* rewriters (rewrite.HTML5, rewrite.CSS).                                 *)
(*                                                                         *)
(* Specifications:                                                         *)
(*   Spec       the crawl: queue goroutine and workers, any interleaving   *)
(*   SpecSite   the crawl of a fixed site: the fetcher is a function       *)
(*   SpecFair   the crawl under weak fairness of the queue and the workers *)
(*   SpecStore  the store: document writers and a reader on one directory  *)
(*   SpecLoad   Load on a directory that holds any file                    *)
(*   SpecKey    repository.Key on URLs and pairs of URLs                   *)
(*   SpecRebase urlrebase.Rebase and the URL rewriter of doFiles           *)
(*   SpecHTML   rewrite.HTML5 on documents of one start tag                *)
(*   SpecDocument  rewrite.Document on pages and on style sheets           *)
(*   SpecRedirect  scrapeTask on one fetch through a chain of redirects    *)
(*   SpecResponse  processResponse on one response                         *)
(***************************************************************************)
EXTENDS Integers, Sequences, FiniteSets, TLC

(***************************************************************************)
(* Bounds of the model.                                                    *)
(***************************************************************************)
\* number of distinct canonical keys of the site
MaxKey == 3
\* longest list of initial URLs handed to Scrape
MaxInit == 2
\* most references in one fetched document
MaxLinks == 2
\* most redirect responses the server answers within one task
MaxHops == 1
\* most references in a document of a fixed site (SpecSite)
MaxSiteLinks == 1

\* workerCount of Scrape (main.go passes 10)
WorkerCount == 2
\* number of distinct keys documents are stored under
MaxStoreKey == 2
\* number of document writers
WriterCount == 2
\* most Write calls on one DocumentWriter
MaxWrites == 2
\* the largest byte value of a body
MaxByte == 1
\* most bytes handed to one Write call
MaxChunk == 1
\* longest data (body and JSON regions) of a file given to Load as it is
MaxData == 4
\* largest body_size in the header of such a file
MaxBodySize == 2
\* most pairs in the query of a URL
MaxQuery == 2
\* most bytes in the path of a URL given to Rebase
MaxPath == 3
\* most attributes in a start tag
MaxAttrs == 2
\* most start tags in a page, besides a base tag before them
MaxTags == 2
\* most tokens in a style sheet, besides @import and white space before them
MaxTokens == 3
\* most redirect responses the server gives to one fetch
MaxChain == 11
\* most references in the body of a response given to processResponse
MaxReferences == 2
\* the redirect limit of scrapeTask's CheckRedirect
RedirectLimit == 10
\* the size of the header of a document file
binaryHeaderSize == 52

Nil == 0

Keys == 1..MaxKey
\* In the crawl a URL is identified with its canonical key: the worker only
\* ever uses a URL to fetch it and to compute repository.Key of it.
URLs == Keys
Workers == 1..WorkerCount

\* repository.Key as the crawl sees it
taskKey(u) == u

\* The admission predicate of the crawl: every key but the last is under
\* one of the roots.
FollowURL(u) == taskKey(u) < MaxKey

RECURSIVE SeqsUpTo(_, _)
SeqsUpTo(S, n) ==
    IF n = 0 THEN {<<>>}
    ELSE LET shorter == SeqsUpTo(S, n - 1)
         IN  shorter \cup {Append(s, x) : s \in shorter, x \in S}

\* What the server answers for a key: whether the media type is one the
\* rewriter supports, the references of the document in document order, and
\* whether the response is a redirect. A reference Nil is one the model
\* leaves open until the rewriter reaches it.
OpenPages ==
    [supported : {FALSE}, links : {<<>>}, redirect : BOOLEAN]
        \cup [supported : {TRUE}, links : {[i \in 1..n |-> Nil] : n \in 0..MaxLinks},
              redirect : BOOLEAN]
\* page[k] = AnyPage: the server may answer any page for k, each time
AnyPage == [supported |-> FALSE, links |-> <<Nil>>, redirect |-> FALSE]
\* the pages of a fixed site: no redirects, MaxSiteLinks references at most
SitePages ==
    [supported : {FALSE}, links : {<<>>}, redirect : {FALSE}]
        \cup [supported : {TRUE}, links : SeqsUpTo(URLs, MaxSiteLinks), redirect : {FALSE}]

VARIABLES
    initialURLs,      \* Scrape's argument
    page,             \* the fetcher F: page[k] is what a fetch of key k yields
    mem,              \* the task objects: mem[t] = [downloadURL, key, next]
    q,                \* the queue's linkedQueue: [head, tail]
    addedKeys,        \* the queue's addedKeys
    incompleteTasks,  \* the queue's incompleteTasks
    qpc,              \* where the queue goroutine is
    worker,           \* worker[w]: the worker goroutine's position and locals
    delivered,        \* history: the tasks sent on outTasks, in order
    doneCnt,          \* history: doneCnt[t] = number of sends of t on doneTasks
    logged,           \* history: some worker has logged an error of scrapeTask
    lastIn            \* history: "skipped" right after the step in which the queue
                      \* skipped a task received on in, "none" otherwise

crawlVars ==
    <<initialURLs, page, mem, q, addedKeys, incompleteTasks, qpc, worker,
      delivered, doneCnt, logged, lastIn>>

VARIABLES
    dir,      \* the directory r.path: dir[name] is the file of that name, or Nil
    files,    \* files[i]: the file writer i created
    dw,       \* dw[w]: the DocumentWriter of writer w and where its caller is
    rd        \* the reader: where Load is and what it returned last

storeVars == <<dir, files, dw, rd>>

VARIABLES
    arg,      \* the arguments of a call of a pure function
    ret       \* what the call returned

callVars == <<arg, ret>>

\* no call of a pure function is under way
NoCall == arg = Nil /\ ret = Nil

vars == <<crawlVars, storeVars, callVars>>

(***************************************************************************)
(* linkedQueue                                                             *)
(* A list value L is [mem, head, tail]: the task objects with their next   *)
(* pointers and the two pointers of the linkedQueue struct.                *)
(***************************************************************************)
List(m, lq) == [mem |-> m, head |-> lq.head, tail |-> lq.tail]

pushRight(L, t) ==
    IF L.tail = Nil
    THEN [L EXCEPT !.head = t, !.tail = t]
    ELSE [L EXCEPT !.mem[L.tail].next = t, !.tail = t]

\* pushLeft without t.next = lq.head
pushLeftUnlinked(L, t) ==
    LET L1 == [L EXCEPT !.head = t]
    IN  IF L1.tail = Nil THEN [L1 EXCEPT !.tail = L1.head] ELSE L1

pushLeft(L, t) ==
    LET L1 == [L EXCEPT !.mem[t].next = L.head, !.head = t]
    IN  IF L1.tail = Nil THEN [L1 EXCEPT !.tail = L1.head] ELSE L1

\* popLeft returns the list after the call and the task returned (or Nil)
popLeft(L) ==
    IF L.head = Nil
    THEN [L |-> L, t |-> Nil]
    ELSE LET t  == L.head
             L1 == [L EXCEPT !.head = L.mem[t].next, !.mem[t].next = Nil]
         IN  [L |-> IF L1.head = Nil THEN [L1 EXCEPT !.tail = Nil] ELSE L1,
              t |-> t]

RECURSIVE walk(_, _, _)
walk(m, cur, fuel) ==
    IF cur = Nil \/ fuel = 0 THEN <<>>
    ELSE <<cur>> \o walk(m, m[cur].next, fuel - 1)

\* the tasks of the list from head to tail
toSlice(L) == walk(L.mem, L.head, Len(L.mem) + 1)

(***************************************************************************)
(* Scrape: the state once the channels are made, the initial tasks are     *)
(* built and the queue goroutine and the workers are started.              *)
(***************************************************************************)
\* a task that downloads another URL than the one its key is of
newTaskOtherURL(u) == [downloadURL |-> (u % MaxKey) + 1, key |-> taskKey(u), next |-> Nil]

newTask(u) == [downloadURL |-> u, key |-> taskKey(u), next |-> Nil]

idleWorker ==
    [pc |-> "idle", task |-> Nil, cur |-> Nil, via |-> 0, rest |-> <<>>,
     redir |-> Nil, err |-> "none"]

initialTasks == [i \in 1..Len(initialURLs) |-> i]

CrawlInit ==
    /\ initialURLs \in SeqsUpTo(URLs, MaxInit)
    /\ page = [k \in Keys |-> AnyPage]
    /\ mem = [i \in 1..Len(initialURLs) |-> newTask(initialURLs[i])]
    /\ q = [head |-> Nil, tail |-> Nil]
    /\ addedKeys = {}
    /\ incompleteTasks = 0
    /\ qpc = "start"
    /\ worker = [w \in Workers |-> idleWorker]
    /\ delivered = <<>>
    /\ doneCnt = [i \in 1..Len(initialURLs) |-> 0]
    /\ logged = FALSE
    /\ lastIn = "none"

(***************************************************************************)
(* queue                                                                   *)
(***************************************************************************)
\* the for loop over initialTasks; added is the addedKeys map, which the
\* loop reads and never writes
RECURSIVE seedTasks(_, _, _)
seedTasks(L, ts, added) ==
    IF ts = <<>> THEN L
    ELSE IF L.mem[Head(ts)].key \in added
         THEN seedTasks(L, Tail(ts), added)
         ELSE seedTasks(pushRight(L, Head(ts)), Tail(ts), added)

QueueStart ==
    /\ qpc = "start"
    /\ LET L == seedTasks(List(mem, q), initialTasks, {})
       IN  /\ mem' = L.mem
           /\ q' = [head |-> L.head, tail |-> L.tail]
    /\ addedKeys' = {}
    /\ incompleteTasks' = Len(initialTasks)
    /\ qpc' = "loop"
    /\ lastIn' = "none"
    /\ UNCHANGED <<callVars, storeVars, initialURLs, page, worker, delivered, doneCnt, logged>>

\* the head of one loop iteration: the loop condition and popLeft
InLoop == qpc = "loop" /\ incompleteTasks > 0
popped == popLeft(List(mem, q))
currentTask == popped.t

\* "need to restore the task for next iteration"
restore(L, t) == IF t # Nil THEN pushLeft(L, t) ELSE L

\* recvIn without incompleteTasks++
recvInUncounted(L, added, n, u) ==
    LET L1 == restore(L, currentTask)
    IN  IF taskKey(u) \in added
        THEN [L |-> L1, added |-> added, n |-> n]
        ELSE LET id == Len(L1.mem) + 1
                 L2 == [L1 EXCEPT !.mem = Append(L1.mem, newTask(u))]
             IN  [L |-> pushRight(L2, id),
                  added |-> added \cup {taskKey(u)},
                  n |-> n]

\* recvIn without the addedKeys test
recvInNoDedup(L, added, n, u) ==
    LET L1 == restore(L, currentTask)
        id == Len(L1.mem) + 1
        L2 == [L1 EXCEPT !.mem = Append(L1.mem, newTask(u))]
    IN  [L |-> pushRight(L2, id),
         added |-> added \cup {taskKey(u)},
         n |-> n + 1]

\* case t, ok := <-in, for a task with download URL u: the list, the
\* addedKeys and the incompleteTasks after it
recvIn(L, added, n, u) ==
    LET L1 == restore(L, currentTask)
    IN  IF taskKey(u) \in added
        THEN [L |-> L1, added |-> added, n |-> n]
        ELSE LET id == Len(L1.mem) + 1
                 L2 == [L1 EXCEPT !.mem = Append(L1.mem, newTask(u))]
             IN  [L |-> pushRight(L2, id),
                  added |-> added \cup {taskKey(u)},
                  n |-> n + 1]

\* the reference the rewriter hands to worker wr's callback next
reference(wr) == IF Head(wr.rest) = Nil THEN URLs ELSE {Head(wr.rest)}

\* the queue receives on in the task that worker w's callback sends for the
\* reference u
Offer(w, u) ==
    /\ InLoop
    /\ worker[w].pc = "rewrite"
    /\ worker[w].rest # <<>>
    /\ u \in reference(worker[w])
    /\ FollowURL(u)
    /\ LET r == recvIn(popped.L, addedKeys, incompleteTasks, u)
       IN  /\ mem' = r.L.mem
           /\ q' = [head |-> r.L.head, tail |-> r.L.tail]
           /\ addedKeys' = r.added
           /\ incompleteTasks' = r.n
           /\ doneCnt' = [i \in 1..Len(r.L.mem) |->
                             IF i \in DOMAIN doneCnt THEN doneCnt[i] ELSE 0]
           /\ lastIn' = IF Len(r.L.mem) > Len(mem) THEN "none" ELSE "skipped"
    /\ worker' = [worker EXCEPT ![w].rest = Tail(@)]
    /\ UNCHANGED <<callVars, storeVars, initialURLs, page, qpc, delivered, logged>>

QueueRecvIn(w) == \E u \in URLs : Offer(w, u)

\* case sendChan <- currentTask, received by the idle worker w
QueueSendOut(w) ==
    /\ InLoop
    /\ currentTask # Nil
    /\ worker[w].pc = "idle"
    /\ mem' = popped.L.mem
    /\ q' = [head |-> popped.L.head, tail |-> popped.L.tail]
    /\ worker' = [worker EXCEPT ![w] =
                     [idleWorker EXCEPT !.pc = "limiter", !.task = currentTask,
                                        !.cur = mem[currentTask].downloadURL]]
    /\ delivered' = Append(delivered, currentTask)
    /\ lastIn' = "none"
    /\ UNCHANGED <<callVars, storeVars, initialURLs, page, addedKeys, incompleteTasks, qpc, doneCnt, logged>>

\* recvDone without incompleteTasks--
recvDoneUncounted(L, n) == [L |-> restore(L, currentTask), n |-> n]

\* recvDone that counts a done signal twice
recvDoneTwice(L, n) == [L |-> restore(L, currentTask), n |-> n - 2]

\* case _, ok := <-doneTask: the list and the incompleteTasks after it
recvDone(L, n) == [L |-> restore(L, currentTask), n |-> n - 1]

\* afterTask with a return out of the loop on an error
afterTaskStopOnError(wr) ==
    IF wr.err # "none" THEN [idleWorker EXCEPT !.pc = "exited"] ELSE idleWorker

\* scrapeTask returned to the loop of Scrape: the worker logs the error, if
\* any, and goes on to range over outTasks
afterTask(wr) == idleWorker

\* the queue with a select that receives on doneTask only when it has no
\* task to send
QueueRecvDoneNothingToSend(w) ==
    /\ InLoop
    /\ currentTask = Nil
    /\ worker[w].pc = "done"
    /\ LET r == recvDone(popped.L, incompleteTasks)
       IN  /\ mem' = r.L.mem
           /\ q' = [head |-> r.L.head, tail |-> r.L.tail]
           /\ incompleteTasks' = r.n
    /\ doneCnt' = [doneCnt EXCEPT ![worker[w].task] = @ + 1]
    /\ logged' = (logged \/ worker[w].err # "none")
    /\ worker' = [worker EXCEPT ![w] = afterTask(@)]
    /\ lastIn' = "none"
    /\ UNCHANGED <<callVars, storeVars, initialURLs, page, addedKeys, qpc, delivered>>

\* the queue receives the task that worker w's deferred function sends on
\* doneTasks; scrapeTask then returns and the worker logs its error
QueueRecvDone(w) ==
    /\ InLoop
    /\ worker[w].pc = "done"
    /\ LET r == recvDone(popped.L, incompleteTasks)
       IN  /\ mem' = r.L.mem
           /\ q' = [head |-> r.L.head, tail |-> r.L.tail]
           /\ incompleteTasks' = r.n
    /\ doneCnt' = [doneCnt EXCEPT ![worker[w].task] = @ + 1]
    /\ logged' = (logged \/ worker[w].err # "none")
    /\ worker' = [worker EXCEPT ![w] = afterTask(@)]
    /\ lastIn' = "none"
    /\ UNCHANGED <<callVars, storeVars, initialURLs, page, addedKeys, qpc, delivered>>

\* the loop condition fails: queue returns
QueueReturn ==
    /\ qpc = "loop"
    /\ ~(incompleteTasks > 0)
    /\ qpc' = "closeOut"
    /\ lastIn' = "none"
    /\ UNCHANGED <<callVars, storeVars, initialURLs, page, mem, q, addedKeys, incompleteTasks, worker,
                   delivered, doneCnt, logged>>

\* the deferred close(outTasks), close(doneTasks), close(inTasks), in the
\* order they run
QueueClose ==
    /\ qpc \in {"closeOut", "closeDone", "closeIn"}
    /\ qpc' = CASE qpc = "closeOut" -> "closeDone"
                [] qpc = "closeDone" -> "closeIn"
                [] qpc = "closeIn" -> "exited"
    /\ lastIn' = "none"
    /\ UNCHANGED <<callVars, storeVars, initialURLs, page, mem, q, addedKeys, incompleteTasks, worker,
                   delivered, doneCnt, logged>>

outClosed == qpc \in {"closeDone", "closeIn", "exited"}
doneClosed == qpc \in {"closeIn", "exited"}
inClosed == qpc = "exited"

(***************************************************************************)
(* The workers: the loop of Scrape and scrapeTask                          *)
(***************************************************************************)
queueVarsUnchanged == UNCHANGED <<mem, q, addedKeys, incompleteTasks, qpc>>
historyUnchanged == UNCHANGED <<delivered, doneCnt, logged>> /\ lastIn' = "none"

\* returnErr with doneTasks <- t at the end of scrapeTask instead of deferred:
\* a transport error returns without it
returnErrNoDefer(wr, e) ==
    IF e = "transport" THEN idleWorker
    ELSE [wr EXCEPT !.pc = "done", !.err = IF e = "none" THEN "none" ELSE "error",
                    !.rest = <<>>, !.redir = Nil]

\* scrapeTask returns err, an error of kind e or "none" for nil: what is left
\* is the deferred doneTasks <- t. Of the error the model keeps that it is one.
returnErr(wr, e) ==
    [wr EXCEPT !.pc = "done", !.err = IF e = "none" THEN "none" ELSE "error",
               !.rest = <<>>, !.redir = Nil]

\* processed with doneTasks <- t on the error paths only: after the final
\* response the worker is back in its loop
processedNoDefer(wr) ==
    IF wr.redir = Nil THEN idleWorker
    ELSE IF wr.via + 1 >= RedirectLimit THEN returnErr(wr, "redirects")
    ELSE [wr EXCEPT !.pc = "do", !.cur = wr.redir, !.via = @ + 1,
                    !.rest = <<>>, !.redir = Nil]

\* processResponse returned nil. For the final response scrapeTask returns
\* nil; for a redirect response CheckRedirect goes on: with no
\* originalCheckRedirect it stops once len(via) >= 10, else the client
\* requests the redirect target.
processed(wr) ==
    IF wr.redir = Nil THEN returnErr(wr, "none")
    ELSE IF wr.via + 1 >= RedirectLimit THEN returnErr(wr, "redirects")
    ELSE [wr EXCEPT !.pc = "do", !.cur = wr.redir, !.via = @ + 1,
                    !.rest = <<>>, !.redir = Nil]

\* storeResponse returned: err, or the data of a document of the given page
stored(wr, ok, p) ==
    IF ~ok THEN returnErr(wr, IF wr.redir # Nil THEN "redirect" ELSE "store")
    ELSE IF ~p.supported THEN processed(wr)
    ELSE [wr EXCEPT !.pc = "rewrite", !.rest = p.links]

\* scrapeTask up to client.Do: s.Limiter.Wait and http.NewRequest
StartTask(w) ==
    /\ worker[w].pc = "limiter"
    /\ \E e \in {"none", "limiter", "request"} :
          worker' = [worker EXCEPT ![w] =
                        IF e = "none" THEN [@ EXCEPT !.pc = "do"]
                        ELSE returnErr(@, e)]
    /\ queueVarsUnchanged /\ historyUnchanged
    /\ UNCHANGED <<callVars, storeVars, initialURLs, page>>

\* client.Do fails in the transport
TransportError(w) ==
    /\ worker[w].pc = "do"
    /\ worker' = [worker EXCEPT ![w] = returnErr(@, "transport")]
    /\ queueVarsUnchanged /\ historyUnchanged
    /\ UNCHANGED <<callVars, storeVars, initialURLs, page>>

\* where the server redirects a request for u, when it answers a redirect
redirectTarget(u) == (u % MaxKey) + 1

\* client.Do receives the response for the request URL cur: the document
\* the fetcher yields for its key, a redirect or the final response;
\* processResponse runs up to the return of storeResponse
Respond(w) ==
    /\ worker[w].pc = "do"
    /\ LET k == taskKey(worker[w].cur)
       IN  \E p \in OpenPages \cup {page[k]}, ok \in BOOLEAN :
              /\ p # AnyPage
              /\ page[k] # AnyPage => p = page[k]
              /\ p.redirect => worker[w].via < MaxHops
              /\ worker' = [worker EXCEPT ![w] =
                    stored([@ EXCEPT !.redir = IF p.redirect
                                               THEN redirectTarget(worker[w].cur)
                                               ELSE Nil],
                           ok, p)]
    /\ queueVarsUnchanged /\ historyUnchanged
    /\ UNCHANGED <<callVars, storeVars, initialURLs, page>>

\* the callback for a reference FollowURL rejects
RewriteSkip(w) ==
    /\ worker[w].pc = "rewrite"
    /\ worker[w].rest # <<>>
    /\ \E u \in reference(worker[w]) : ~FollowURL(u)
    /\ worker' = [worker EXCEPT ![w].rest = Tail(@)]
    /\ queueVarsUnchanged /\ historyUnchanged
    /\ UNCHANGED <<callVars, storeVars, initialURLs, page>>

\* rewrite.HTML5 or rewrite.CSS returns an error
RewriteError(w) ==
    /\ worker[w].pc = "rewrite"
    /\ worker' = [worker EXCEPT ![w] =
                     returnErr(@, IF @.redir # Nil THEN "redirect" ELSE "rewriter")]
    /\ queueVarsUnchanged /\ historyUnchanged
    /\ UNCHANGED <<callVars, storeVars, initialURLs, page>>

\* the rewriter reaches the end of the document
RewriteEnd(w) ==
    /\ worker[w].pc = "rewrite"
    /\ worker[w].rest = <<>>
    /\ worker' = [worker EXCEPT ![w] = processed(@)]
    /\ queueVarsUnchanged /\ historyUnchanged
    /\ UNCHANGED <<callVars, storeVars, initialURLs, page>>

\* range outTasks ends on the closed channel; wg.Done
WorkerExit(w) ==
    /\ worker[w].pc = "idle"
    /\ outClosed
    /\ worker' = [worker EXCEPT ![w].pc = "exited"]
    /\ queueVarsUnchanged /\ historyUnchanged
    /\ UNCHANGED <<callVars, storeVars, initialURLs, page>>

\* wg.Wait returns
ScrapeReturned == \A w \in Workers : worker[w].pc = "exited"

QueueNext ==
    \/ QueueStart
    \/ \E w \in Workers : QueueRecvIn(w)
    \/ \E w \in Workers : QueueSendOut(w)
    \/ \E w \in Workers : QueueRecvDone(w)
    \/ QueueReturn
    \/ QueueClose

WorkerNext(w) ==
    \/ QueueRecvIn(w)
    \/ QueueSendOut(w)
    \/ QueueRecvDone(w)
    \/ StartTask(w)
    \/ TransportError(w)
    \/ Respond(w)
    \/ RewriteSkip(w)
    \/ RewriteError(w)
    \/ RewriteEnd(w)
    \/ WorkerExit(w)

(***************************************************************************)
(* repository: the store                                                   *)
(* A directory maps names to files. A file is its header, the number of    *)
(* header fields written so far, and the bytes after the header. Unwritten *)
(* bytes below the end of a file read as zero.                             *)
(***************************************************************************)
StoreKeys == 1..MaxStoreKey
Writers == 1..WriterCount
Bytes == 0..MaxByte

\* tmpName with one name for all writers
tmpNameShared(w) == [prefix |-> "tmp-", stem |-> 1, suffix |-> ""]

\* the name ioutil.TempFile(r.path, "tmp-") creates for writer w; TempFile
\* never returns a name that exists
tmpName(w) == [prefix |-> "tmp-", stem |-> w, suffix |-> ""]

\* base32 is one-to-one and its alphabet has no lower-case letter: stem is the
\* encoded key
keyToFilename(key) == [prefix |-> "", stem |-> key, suffix |-> ".bin"]

\* names in the directory that no writer made: "tmp-0.bin" and "0"
ForeignNames ==
    {[prefix |-> "tmp-", stem |-> 0, suffix |-> ".bin"],
     [prefix |-> "", stem |-> 0, suffix |-> ""]}
\* the file of a foreign name
Foreign == WriterCount + 1

Names ==
    {tmpName(w) : w \in Writers} \cup {keyToFilename(k) : k \in StoreKeys}
        \cup ForeignNames

\* the bytes "STS1"
Magic == <<83, 84, 83, 49>>
zeroHeader == <<<<0, 0, 0, 0>>, 0, 0, 0, 0>>
\* the offsets at which magic, body_size, body_sha256, json_size and
\* json_crc32 end
fieldEnd == <<4, 12, 44, 48, binaryHeaderSize>>

NoFile == [hdr |-> zeroHeader, hn |-> 0, data |-> <<>>, live |-> FALSE]
emptyFile == [hdr |-> zeroHeader, hn |-> 0, data |-> <<>>, live |-> TRUE]

fileSize(F) ==
    LET h == IF F.hn = 0 THEN 0 ELSE fieldEnd[F.hn]
        d == IF F.data = <<>> THEN 0 ELSE binaryHeaderSize + Len(F.data)
    IN  IF h > d THEN h ELSE d

RECURSIVE sha256(_)
sha256(b) ==
    IF b = <<>> THEN 0
    ELSE (sha256(SubSeq(b, 1, Len(b) - 1)) * (MaxByte + 2) + b[Len(b)] + 1) % (2 ^ 16)

RECURSIVE ChecksumIEEE(_)
ChecksumIEEE(b) ==
    IF b = <<>> THEN 0
    ELSE (ChecksumIEEE(SubSeq(b, 1, Len(b) - 1)) * 31 + b[Len(b)]) % (2 ^ 16)

\* DocumentMetadata: of its fields the model keeps Key
Metas == [Key : StoreKeys]

\* json.Marshal: an opening brace, the fields, a closing brace
Marshal(m) == <<123, m.Key, 125>>

\* json.Unmarshal
Unmarshal(b) ==
    IF Len(b) = 3 /\ b[1] = 123 /\ b[3] = 125 /\ b[2] \in StoreKeys
    THEN [ok |-> TRUE, meta |-> [Key |-> b[2]]]
    ELSE [ok |-> FALSE, meta |-> [Key |-> Nil]]

newWriter ==
    [pc |-> "new", hashed |-> <<>>, bodyWrittenBytes |-> 0, writes |-> 0,
     meta |-> [Key |-> Nil], closed |-> FALSE, err |-> "none"]

noDoc == [Metadata |-> [Key |-> Nil], BodySHA256 |-> 0, BodySize |-> 0, f |-> Nil]

idleReader ==
    [pc |-> "idle", key |-> Nil, f |-> Nil, hdr |-> zeroHeader, err |-> "pending",
     doc |-> noDoc]

StoreInit ==
    /\ dir = [n \in Names |-> IF n \in ForeignNames THEN Foreign ELSE Nil]
    /\ files = [i \in Writers |-> NoFile]
    /\ dw = [w \in Writers |-> newWriter]
    /\ rd = idleReader

(***************************************************************************)
(* DocumentWriter                                                          *)
(***************************************************************************)
\* the deferred function of NewWriter and of Close: Close the file and
\* Remove its name. The errors of the two calls are dropped by the code; the
\* model takes it that they succeed.
removeTemp(w) ==
    /\ dir' = [dir EXCEPT ![tmpName(w)] = Nil]
    /\ files' = [files EXCEPT ![w] = NoFile]

\* a call of the writer returned the error e: the writer is of no more use
failedWriter(d, e) == [newWriter EXCEPT !.pc = "failed", !.err = e, !.closed = d.closed]

\* NewWriter: TempFile, then Seek behind the header
NewWriter(w) ==
    /\ dw[w].pc = "new"
    /\ \E outcome \in {"ok", "tempfile", "seek"} :
          IF outcome = "ok"
          THEN /\ dir' = [dir EXCEPT ![tmpName(w)] = w]
               /\ files' = [files EXCEPT ![w] = emptyFile]
               /\ dw' = [dw EXCEPT ![w].pc = "body"]
          ELSE /\ dw' = [dw EXCEPT ![w] = failedWriter(@, outcome)]
               /\ UNCHANGED <<dir, files>>
    /\ UNCHANGED <<rd, crawlVars, callVars>>

Chunks == SeqsUpTo(Bytes, MaxChunk) \ {<<>>}

\* DocumentWriter.Write(b): the hasher takes all of b, the file n bytes of it;
\* with n < len(b) the call returns an error, and the caller may go on
Write(w) ==
    /\ dw[w].pc = "body"
    /\ dw[w].writes < MaxWrites
    /\ \E b \in Chunks : \E n \in 0..Len(b) :
          /\ dw' = [dw EXCEPT ![w].hashed = @ \o b,
                              ![w].bodyWrittenBytes = @ + n,
                              ![w].writes = @ + 1]
          /\ files' = [files EXCEPT ![w].data = @ \o SubSeq(b, 1, n)]
    /\ UNCHANGED <<dir, rd, crawlVars, callVars>>

\* the steps of Close in the order of the code, and what follows each
afterStage(stage) ==
    CASE stage = "marshal" -> "json"
      [] stage = "json" -> "seek"
      [] stage = "seek" -> "header"
      [] stage = "header" -> "close"
      [] stage = "close" -> "rename"
      [] stage = "rename" -> "closed"

\* closeStep that goes on after a short write of the header
closeStepHeaderUnchecked(d, stage, ok) ==
    LET d1 == [d EXCEPT !.closed = (@ \/ stage = "close")]
    IN  IF ok \/ stage = "header" THEN [d1 EXCEPT !.pc = afterStage(stage)]
        ELSE failedWriter(d1, stage)

\* one step of Close has run: with an error Close returns it, else it goes on.
\* closed is set after f.Close() whatever it returned.
closeStep(d, stage, ok) ==
    LET d1 == [d EXCEPT !.closed = (@ \/ stage = "close")]
    IN  IF ok THEN [d1 EXCEPT !.pc = afterStage(stage)]
        ELSE failedWriter(d1, stage)

\* Close returns: the deferred function removes the file unless closed is set
deferred(w) ==
    IF dw'[w].pc = "failed" /\ ~dw'[w].closed
    THEN removeTemp(w)
    ELSE UNCHANGED <<dir, files>>

\* Close(metadata): json.Marshal and the size check
CloseMarshal(w) ==
    /\ dw[w].pc = "body"
    /\ \E m \in Metas, ok \in BOOLEAN :
          dw' = [dw EXCEPT ![w] = closeStep([@ EXCEPT !.meta = m], "marshal", ok)]
    /\ deferred(w)
    /\ UNCHANGED <<rd, crawlVars, callVars>>

\* d.f.Write(jsonData)
CloseWriteJSON(w) ==
    /\ dw[w].pc = "json"
    /\ LET jsonData == Marshal(dw[w].meta)
       IN  \E n \in 0..Len(jsonData) :
              /\ dw' = [dw EXCEPT ![w] = closeStep(@, "json", n = Len(jsonData))]
              /\ IF dw'[w].pc = "failed"
                 THEN deferred(w)
                 ELSE /\ files' = [files EXCEPT ![w].data = @ \o SubSeq(jsonData, 1, n)]
                      /\ UNCHANGED dir
    /\ UNCHANGED <<rd, crawlVars, callVars>>

\* d.f.Seek(0, 0)
CloseSeek(w) ==
    /\ dw[w].pc = "seek"
    /\ \E ok \in BOOLEAN : dw' = [dw EXCEPT ![w] = closeStep(@, "seek", ok)]
    /\ deferred(w)
    /\ UNCHANGED <<rd, crawlVars, callVars>>

\* the header Close builds
\* binaryHeader with the digest left out
binaryHeaderNoDigest(d) ==
    <<Magic, d.bodyWrittenBytes, 0, Len(Marshal(d.meta)),
      ChecksumIEEE(Marshal(d.meta))>>

binaryHeader(d) ==
    <<Magic, d.bodyWrittenBytes, sha256(d.hashed), Len(Marshal(d.meta)),
      ChecksumIEEE(Marshal(d.meta))>>

\* the file after the first n fields of header h are written at offset 0
writeHeader(F, h, n) ==
    [F EXCEPT !.hdr = [i \in 1..5 |-> IF i <= n THEN h[i] ELSE F.hdr[i]],
              !.hn = IF n > @ THEN n ELSE @]

\* d.f.Write(binaryHeader[:])
CloseWriteHeader(w) ==
    /\ dw[w].pc = "header"
    /\ \E n \in 0..5 :
          /\ dw' = [dw EXCEPT ![w] = closeStep(@, "header", n = 5)]
          /\ IF dw'[w].pc = "failed"
             THEN deferred(w)
             ELSE /\ files' = [files EXCEPT ![w] = writeHeader(@, binaryHeader(dw[w]), n)]
                  /\ UNCHANGED dir
    /\ UNCHANGED <<rd, crawlVars, callVars>>

\* d.f.Close()
CloseFile(w) ==
    /\ dw[w].pc = "close"
    /\ \E ok \in BOOLEAN : dw' = [dw EXCEPT ![w] = closeStep(@, "close", ok)]
    /\ deferred(w)
    /\ UNCHANGED <<rd, crawlVars, callVars>>

\* os.Rename(d.f.Name(), path.Join(d.r.path, keyToFilename(metadata.Key)))
CloseRename(w) ==
    /\ dw[w].pc = "rename"
    /\ \E ok \in BOOLEAN :
          /\ dw' = [dw EXCEPT ![w] = closeStep(@, "rename", ok)]
          /\ IF ok
             THEN dir' = [dir EXCEPT ![tmpName(w)] = Nil,
                                     ![keyToFilename(dw[w].meta.Key)] = dir[tmpName(w)]]
             ELSE UNCHANGED dir
    /\ UNCHANGED <<files, rd, crawlVars, callVars>>

(***************************************************************************)
(* Load                                                                    *)
(***************************************************************************)
\* Document.Body: a reader of the BodySize bytes behind the header, or of as
\* many of them as the file has
Body(doc) ==
    LET data == files[doc.f].data
    IN  SubSeq(data, 1, IF doc.BodySize < Len(data) THEN doc.BodySize ELSE Len(data))

\* Load returned the error e
loadFailed(key, e) == [idleReader EXCEPT !.key = key, !.err = e]

\* os.Open of the path of the key
LoadOpen ==
    /\ rd.pc = "idle"
    /\ \E key \in StoreKeys :
          LET f == dir[keyToFilename(key)]
          IN  rd' = IF f = Nil THEN loadFailed(key, "notexist")
                    ELSE [idleReader EXCEPT !.pc = "header", !.key = key, !.f = f]
    /\ UNCHANGED <<dir, files, dw, crawlVars, callVars>>

\* LoadHeader without the check of the magic
LoadHeaderNoMagic ==
    /\ rd.pc = "header"
    /\ LET F == files[rd.f]
       IN  rd' = IF fileSize(F) < binaryHeaderSize THEN loadFailed(rd.key, "eof")
                 ELSE [rd EXCEPT !.pc = "json", !.hdr = F.hdr]
    /\ UNCHANGED <<dir, files, dw, crawlVars, callVars>>

\* openDocument: io.ReadFull of the header and the check of the magic
LoadHeader ==
    /\ rd.pc = "header"
    /\ LET F == files[rd.f]
       IN  rd' = IF fileSize(F) < binaryHeaderSize THEN loadFailed(rd.key, "eof")
                 ELSE IF F.hdr[1] # Magic THEN loadFailed(rd.key, "magic")
                 ELSE [rd EXCEPT !.pc = "json", !.hdr = F.hdr]
    /\ UNCHANGED <<dir, files, dw, crawlVars, callVars>>

\* openDocument: Seek behind the body, io.ReadFull of the JSON data, the
\* check of its checksum and json.Unmarshal
LoadJSON ==
    /\ rd.pc = "json"
    /\ LET F            == files[rd.f]
           BodySize     == rd.hdr[2]
           jsonDataSize == rd.hdr[4]
           avail        == IF Len(F.data) > BodySize THEN Len(F.data) - BodySize ELSE 0
           jsonData     == SubSeq(F.data, BodySize + 1, BodySize + jsonDataSize)
       IN  rd' = IF jsonDataSize > 0 /\ avail < jsonDataSize
                 THEN loadFailed(rd.key, "eof")
                 ELSE IF ChecksumIEEE(jsonData) # rd.hdr[5]
                 THEN loadFailed(rd.key, "crc")
                 ELSE IF ~Unmarshal(jsonData).ok
                 THEN loadFailed(rd.key, "json")
                 ELSE [idleReader EXCEPT
                          !.key = rd.key, !.err = "none",
                          !.doc = [Metadata |-> Unmarshal(jsonData).meta,
                                   BodySHA256 |-> rd.hdr[3],
                                   BodySize |-> BodySize,
                                   f |-> rd.f]]
    /\ UNCHANGED <<dir, files, dw, crawlVars, callVars>>

WriterNext(w) ==
    \/ NewWriter(w)
    \/ Write(w)
    \/ CloseMarshal(w)
    \/ CloseWriteJSON(w)
    \/ CloseSeek(w)
    \/ CloseWriteHeader(w)
    \/ CloseFile(w)
    \/ CloseRename(w)

ReaderNext == LoadOpen \/ LoadHeader \/ LoadJSON

StoreNext == ReaderNext \/ \E w \in Writers : WriterNext(w)

(***************************************************************************)
(***************************************************************************)
(* List                                                                    *)
(***************************************************************************)
\* strings.HasPrefix(name, "tmp-") and strings.HasSuffix(name, ".bin")
HasPrefix(name, p) == name.prefix = p
HasSuffix(name, x) == name.suffix = x

\* f.Readdirnames(-1): the names in the directory
Readdirnames == {n \in Names : dir[n] # Nil}

\* listed without the test of the ".bin" suffix
listedAnySuffix(names) == {n \in names : ~HasPrefix(n, "tmp-")}

\* the loop of List over the names: the entries it keeps
listed(names) == {n \in names : ~HasPrefix(n, "tmp-") /\ HasSuffix(n, ".bin")}

\* what Repository.List returns, called in this state
RepositoryList == listed(Readdirnames)

(***************************************************************************)
(* urlnorm.Canonical and repository.Key                                    *)
(* The text of a URL is kept by its parts: scheme, host name (bracketed or *)
(* not), port (with or without its colon), path (a run of bytes), query    *)
(* (the raw pairs in order, with or without the question mark), fragment   *)
(* (with or without the hash). url.Parse makes a url.URL of a text and     *)
(* URL.String a text of a url.URL.                                         *)
(***************************************************************************)
\* strings.ToLower on the strings of the model
ToLower(s) ==
    CASE s = "HTTPS" -> "https"
      [] s = "HTTP" -> "http"
      [] s = "EXAMPLE.COM" -> "example.com"
      [] OTHER -> s

\* url.QueryUnescape and url.QueryEscape on the strings of the model: a
\* space is written + by QueryEscape and read from + and from %20, a
\* percent sign is written %25
QueryUnescapeNone(s) == s

QueryUnescape(s) ==
    CASE s = "a%20b" -> "a b"
      [] s = "a+b" -> "a b"
      [] s = "a%2520b" -> "a%20b"
      [] s = "a%252520b" -> "a%2520b"
      [] OTHER -> s

QueryEscape(s) ==
    CASE s = "a b" -> "a+b"
      [] s = "a%20b" -> "a%2520b"
      [] s = "a%2520b" -> "a%252520b"
      [] OTHER -> s

\* the order of Go strings, on the parameter names of the model
ByteOrder == <<"A", "a", "b", "utm_campaign", "utm_source">>
nameLess(x, y) ==
    \E i, j \in DOMAIN ByteOrder : ByteOrder[i] = x /\ ByteOrder[j] = y /\ i < j

\* url.Parse: the scheme is lowered, an empty query after a question mark
\* sets ForceQuery
Parse(text) ==
    [Scheme |-> ToLower(text.scheme),
     Host |-> [name |-> text.name, bracket |-> text.bracket,
               hasPort |-> text.hasPort, port |-> text.port],
     Path |-> text.path,
     RawQuery |-> text.query,
     ForceQuery |-> text.hasQuery /\ text.query = <<>>,
     Fragment |-> IF text.hasFragment THEN text.fragment ELSE ""]

\* URL.String
String(u) ==
    [scheme |-> u.Scheme,
     name |-> u.Host.name, bracket |-> u.Host.bracket,
     hasPort |-> u.Host.hasPort, port |-> u.Host.port,
     path |-> u.Path,
     hasQuery |-> (u.ForceQuery \/ u.RawQuery # <<>>),
     query |-> u.RawQuery,
     hasFragment |-> u.Fragment # "",
     fragment |-> u.Fragment]

\* URL.Hostname, URL.Port, URL.IsAbs, and whether u.Host is the empty string
Hostname(u) == u.Host.name
Port(u) == IF u.Host.hasPort THEN u.Host.port ELSE ""
IsAbs(u) == u.Scheme # ""
emptyHost(h) == h.name = "" /\ ~h.hasPort

\* strings.Contains(host, ":")
hasColon(host) == host = "::1"

\* joinHostPort that leaves the port out
joinHostPortNoPort(host, port) ==
    [name |-> host, bracket |-> hasColon(host), hasPort |-> FALSE, port |-> ""]

joinHostPort(host, port) ==
    [name |-> host, bracket |-> hasColon(host), hasPort |-> port # "", port |-> port]

\* Canonical that omits no port
CanonicalKeepPort(u) ==
    LET scheme == ToLower(u.Scheme)
        u1 == [u EXCEPT !.Scheme = scheme,
                        !.Host = joinHostPort(ToLower(Hostname(u)), Port(u))]
    IN  IF IsAbs(u1) /\ ~emptyHost(u1.Host) /\ u1.Path = <<>>
        THEN [u1 EXCEPT !.Path = <<"/">>] ELSE u1

Canonical(u) ==
    LET scheme == ToLower(u.Scheme)
        port == IF \/ scheme = "https" /\ Port(u) = "443"
                   \/ scheme = "http" /\ Port(u) = "80"
                THEN "" ELSE Port(u)
        u1 == [u EXCEPT !.Scheme = scheme,
                        !.Host = joinHostPort(ToLower(Hostname(u)), port)]
    IN  IF IsAbs(u1) /\ ~emptyHost(u1.Host) /\ u1.Path = <<>>
        THEN [u1 EXCEPT !.Path = <<"/">>] ELSE u1

\* the values of the pairs named name, in order
RECURSIVE valuesOf(_, _)
valuesOf(raw, name) ==
    IF raw = <<>> THEN <<>>
    ELSE (IF QueryUnescape(Head(raw)[1]) = name
          THEN <<QueryUnescape(Head(raw)[2])>> ELSE <<>>) \o valuesOf(Tail(raw), name)

\* URL.Query: the names of the map and the values of each
Query(u) ==
    LET names == {QueryUnescape(u.RawQuery[i][1]) : i \in DOMAIN u.RawQuery}
    IN  [k \in names |-> valuesOf(u.RawQuery, k)]

trackingParams == {"utm_source", "utm_medium", "utm_campaign", "utm_term", "utm_content"}

\* sort.Slice of the parts by name
RECURSIVE sortNames(_)
sortNames(S) ==
    IF S = {} THEN <<>>
    ELSE LET least == CHOOSE x \in S : \A y \in S \ {x} : nameLess(x, y)
         IN  <<least>> \o sortNames(S \ {least})

\* queryParam.String: name=value for each value, joined by &
queryParamString(name, values) ==
    [i \in 1..Len(values) |-> <<QueryEscape(name), QueryEscape(values[i])>>]

RECURSIVE joinParts(_, _)
joinParts(names, query) ==
    IF names = <<>> THEN <<>>
    ELSE queryParamString(Head(names), query[Head(names)]) \o joinParts(Tail(names), query)

Key(someURL) ==
    LET u == Canonical(someURL)
        query == Query(u)
        parts == sortNames(DOMAIN query \ trackingParams)
    IN  String([u EXCEPT !.RawQuery = joinParts(parts, query), !.Fragment = ""])

(***************************************************************************)
(* The URLs Key is applied to                                              *)
(***************************************************************************)
RawNames == {"a", "A", "b", "utm_source"}
RawValues == {"hello", "a%20b", "a+b"}
RawPairs == {<<n, v>> : n \in RawNames, v \in RawValues}
RawQueries == SeqsUpTo(RawPairs, MaxQuery)

Schemes == {"http", "https", "HTTPS"}
HostNames == {"example.com", "EXAMPLE.COM", "example.org", "::1"}
\* no port, an empty port after the colon, and three port numbers
PortTexts == {<<FALSE, "">>, <<TRUE, "">>, <<TRUE, "80">>, <<TRUE, "443">>, <<TRUE, "444">>}
Paths == {<<>>, <<"/">>, <<"/", "a">>}
Fragments == {<<FALSE, "">>, <<TRUE, "top">>}

text(scheme, name, pt, path, hasQuery, query, fr) ==
    [scheme |-> scheme, name |-> name, bracket |-> hasColon(name),
     hasPort |-> pt[1], port |-> pt[2], path |-> path,
     hasQuery |-> hasQuery, query |-> query,
     hasFragment |-> fr[1], fragment |-> fr[2]]

\* a URL without scheme and host, and the absolute URLs
Authorities ==
    {<<"", "", <<FALSE, "">> >>}
        \cup {<<s, h, pt>> : s \in Schemes, h \in HostNames, pt \in PortTexts}

QueryTexts == {<<FALSE, <<>> >>} \cup {<<TRUE, qs>> : qs \in RawQueries}

\* the URLs that differ in scheme, host, port and path
AuthorityTexts ==
    {text(au[1], au[2], au[3], pa, FALSE, <<>>, <<FALSE, "">>) :
        au \in Authorities, pa \in Paths}

\* the URLs that differ in query and fragment
QueryOnlyTexts ==
    {text("http", "example.com", <<FALSE, "">>, <<"/", "a">>, qt[1], qt[2], fr) :
        qt \in QueryTexts, fr \in Fragments}

\* the URLs that differ in all of it
Texts ==
    {text(au[1], au[2], au[3], pa, qt[1], qt[2], fr) :
        au \in Authorities, pa \in Paths, qt \in QueryTexts, fr \in Fragments}

noKeys == [n |-> 0]

KeyInit ==
    /\ CrawlInit
    /\ initialURLs = <<>>
    /\ StoreInit
    /\ \/ \E x \in Texts : arg = [a |-> x, b |-> x]
       \/ \E x, y \in AuthorityTexts : arg = [a |-> x, b |-> y]
       \/ \E x, y \in QueryOnlyTexts : arg = [a |-> x, b |-> y]
    /\ ret = noKeys

\* the keys of the two URLs
CallKey ==
    /\ ret.n = 0
    /\ ret' = [n |-> 1, a |-> Key(Parse(arg.a)), b |-> Key(Parse(arg.b))]
    /\ UNCHANGED <<arg, crawlVars, storeVars>>

\* the key of the first key
CallKeyAgain ==
    /\ ret.n = 1
    /\ ret' = [n |-> 2, a |-> ret.a, b |-> ret.b, aa |-> Key(Parse(ret.a))]
    /\ UNCHANGED <<arg, crawlVars, storeVars>>

KeyNext == CallKey \/ CallKeyAgain

SpecKey == KeyInit /\ [][KeyNext]_vars

(***************************************************************************)
(* urlrebase.Rebase and the URL rewriter of doFiles                        *)
(***************************************************************************)
\* strings.HasSuffix(path, "/")
endsWithSlash(path) == path # <<>> /\ path[Len(path)] = "/"

\* strings.HasPrefix(path, prefix)
startsWith(path, prefix) ==
    Len(prefix) <= Len(path) /\ SubSeq(path, 1, Len(prefix)) = prefix

\* the results of Rebase: a URL and no error, or no URL and ErrNoBase or
\* the error made by fmt.Errorf; and the result of no call
nilURL == [nil |-> TRUE]
rebased(u) == [err |-> "none", u |-> u]
ErrNoBase == [err |-> "ErrNoBase", u |-> nilURL]
errNewBaseSlash == [err |-> "new base path without slash", u |-> nilURL]
notCalled == [err |-> "not called", u |-> nilURL]

\* Rebase that does not compare the hosts
RebaseAnyHost(u0, oldBase0, newBase0) ==
    IF ~IsAbs(u0) THEN ErrNoBase
    ELSE
    LET u == Canonical(u0)
        oldBase == Canonical(oldBase0)
        newBase == Canonical(newBase0)
    IN  IF u.Scheme # oldBase.Scheme THEN ErrNoBase
        ELSE IF ~endsWithSlash(oldBase.Path)
        THEN IF u.Path # oldBase.Path THEN ErrNoBase
             ELSE rebased([u EXCEPT !.Scheme = newBase.Scheme, !.Host = newBase.Host,
                                    !.Path = newBase.Path])
        ELSE IF ~startsWith(u.Path, oldBase.Path) THEN ErrNoBase
        ELSE IF ~endsWithSlash(newBase.Path) THEN errNewBaseSlash
        ELSE rebased([u EXCEPT !.Scheme = newBase.Scheme, !.Host = newBase.Host,
                               !.Path = newBase.Path
                                   \o SubSeq(u.Path, Len(oldBase.Path) + 1, Len(u.Path))])

Rebase(u0, oldBase0, newBase0) ==
    IF ~IsAbs(u0) THEN ErrNoBase
    ELSE
    LET u == Canonical(u0)
        oldBase == Canonical(oldBase0)
        newBase == Canonical(newBase0)
    IN  IF u.Scheme # oldBase.Scheme THEN ErrNoBase
        ELSE IF u.Host # oldBase.Host THEN ErrNoBase
        ELSE IF ~endsWithSlash(oldBase.Path)
        THEN IF u.Path # oldBase.Path THEN ErrNoBase
             ELSE rebased([u EXCEPT !.Scheme = newBase.Scheme, !.Host = newBase.Host,
                                    !.Path = newBase.Path])
        ELSE IF ~startsWith(u.Path, oldBase.Path) THEN ErrNoBase
        ELSE IF ~endsWithSlash(newBase.Path) THEN errNewBaseSlash
        ELSE rebased([u EXCEPT !.Scheme = newBase.Scheme, !.Host = newBase.Host,
                               !.Path = newBase.Path
                                   \o SubSeq(u.Path, Len(oldBase.Path) + 1, Len(u.Path))])

\* url.Parse fails on a host name with a space in it
badHost == "exa mple.com"
parseFails(t) == t.name = badHost

\* the results of the rewriter: the new URL text and no error, or an error
rewritten(value) == [err |-> "none", value |-> value]
notRewritten(err) == [err |-> err, value |-> ""]

\* the loop over the mappings
RECURSIVE tryMappings(_, _)
tryMappings(parsedURL, mappings) ==
    IF mappings = <<>> THEN notRewritten("ErrNotModified")
    ELSE LET mapping == Head(mappings)
             r == Rebase(parsedURL, mapping.oldURL, mapping.newURL)
         IN  CASE r.err = "ErrNoBase" -> tryMappings(parsedURL, Tail(mappings))
               [] r.err = "none" -> rewritten(String(r.u))
               [] OTHER -> notRewritten(r.err)

\* the urlRewriter of doFiles
urlRewriter(value, mappings) ==
    IF parseFails(value) THEN notRewritten("parse")
    ELSE tryMappings(Parse(value), mappings)

(***************************************************************************)
(* The URLs and bases Rebase is applied to                                 *)
(***************************************************************************)
PathBytes == {"/", "a", "b"}
RebasePaths == {p \in SeqsUpTo(PathBytes, MaxPath) : p = <<>> \/ p[1] = "/"}

plainText(scheme, name, pt, path) == text(scheme, name, pt, path, FALSE, <<>>, <<FALSE, "">>)

\* the values of the URL attributes: absolute URLs, URLs without scheme,
\* and a text that does not parse
RebaseValues ==
    {plainText(s, h, pt, p) :
        s \in {"", "http", "https"}, h \in {"example.com", "EXAMPLE.COM", "example.org"},
        pt \in {<<FALSE, "">>, <<TRUE, "80">>}, p \in RebasePaths}
      \cup {plainText("http", badHost, <<FALSE, "">>, <<"/">>)}

OldBases ==
    {plainText(s, "example.com", <<FALSE, "">>, p) : s \in {"", "http"}, p \in RebasePaths}

NewBases ==
    {plainText(s, "example.org", <<FALSE, "">>, p) :
        s \in {"", "https"}, p \in {<<>>, <<"/">>, <<"/", "b">>, <<"/", "b", "/">>}}

\* the mapping that follows the first one
nextMapping ==
    [oldURL |-> Parse(plainText("http", "example.com", <<FALSE, "">>, <<"/">>)),
     newURL |-> Parse(plainText("https", "example.org", <<FALSE, "">>, <<"/", "n", "/">>))]

mappingsOf(a) == << [oldURL |-> a.oldBase, newURL |-> a.newBase], nextMapping >>

noResult == [n |-> 0]

RebaseInit ==
    /\ CrawlInit
    /\ initialURLs = <<>>
    /\ StoreInit
    /\ \E v \in RebaseValues, o \in OldBases, n \in NewBases :
           arg = [value |-> v, oldBase |-> Parse(o), newBase |-> Parse(n)]
    /\ ret = noResult

\* Rebase of the parsed value with the first mapping
CallRebase ==
    /\ ret.n = 0
    /\ ~parseFails(arg.value)
    /\ ret' = [n |-> 1, r |-> Rebase(Parse(arg.value), arg.oldBase, arg.newBase)]
    /\ UNCHANGED <<arg, crawlVars, storeVars>>

\* the rewriter of doFiles on the value, with the two mappings
CallRewriter ==
    /\ ret.n = 1 \/ (ret.n = 0 /\ parseFails(arg.value))
    /\ ret' = [n |-> 2,
               r |-> IF ret.n = 1 THEN ret.r ELSE notCalled,
               w |-> urlRewriter(arg.value, mappingsOf(arg))]
    /\ UNCHANGED <<arg, crawlVars, storeVars>>

RebaseNext == CallRebase \/ CallRewriter

SpecRebase == RebaseInit /\ [][RebaseNext]_vars

(***************************************************************************)
(* rewrite.HTML5                                                           *)
(* Bytes and strings are sequences of pieces: a piece is a word or a mark  *)
(* of the text. The lexer is the list of the tokens it will return; after  *)
(* the last of them it returns ErrorToken with io.EOF. Each token carries  *)
(* the bytes between the offsets before and after Lexer.Next (rawData),    *)
(* the bytes the lexer returned (data), Lexer.Text and Lexer.AttrVal. The  *)
(* writer is a buffer, whose Write does not fail.                          *)
(***************************************************************************)
\* html.UnescapeString and html.EscapeString, piece by piece
UnescapeString(s) == [i \in 1..Len(s) |-> IF s[i] = "&amp;" THEN "&" ELSE s[i]]

EscapeString(s) ==
    [i \in 1..Len(s) |->
        CASE s[i] = "&" -> "&amp;"
          [] s[i] = "\"" -> "&#34;"
          [] s[i] = "'" -> "&#39;"
          [] OTHER -> s[i]]

\* the URLRewriter given to HTML5: one that never modifies, one that
\* replaces every URL, one that fails
Callbacks == {"ErrNotModified", "REPLACED", "failure"}

\* the URLs of the first and of the second kind: a callback may treat them
\* differently
FirstURLs == {"a.html", "a.png", "a.jar", "a.css", "http://a/"}
SecondURLs == {"b.html", "b.png", "b.jar", "b.css", "http://b/"}
marked(value, S) == \E i \in DOMAIN value : value[i] \in S

\* what a callback returns: ErrNotModified, a new value, or another error
notModified == [value |-> <<>>, err |-> "ErrNotModified"]
moved(value) == [value |-> <<"new/">> \o value, err |-> "nil"]

\* besides the three above: one that moves the URLs of the first kind, one
\* that moves those of the second kind, one that moves every URL but fails
\* on those of the second kind, and one that returns a value with a double
\* quote, a newline and a backslash in it
callback(cb, url) ==
    CASE cb = "ErrNotModified" -> notModified
      [] cb = "REPLACED" -> [value |-> <<"REPLACED">>, err |-> "nil"]
      [] cb = "quotes" -> [value |-> <<"\"", "q", "\n", "\\">>, err |-> "nil"]
      [] cb = "moves a" ->
             IF marked(url.Value, FirstURLs) THEN moved(url.Value) ELSE notModified
      [] cb = "moves b" ->
             IF marked(url.Value, SecondURLs) THEN moved(url.Value) ELSE notModified
      [] cb = "fails on b" /\ ~marked(url.Value, SecondURLs) -> moved(url.Value)
      [] OTHER -> [value |-> <<>>, err |-> "failure"]

\* lc.urlRewriter(url): the result, and the call noted in the rewriter
callRewriter(lc, url) ==
    [r |-> callback(lc.urlRewriter, url), lc |-> [lc EXCEPT !.calls = Append(@, url)]]

\* html5Rewriter as HTML5 makes it
newRewriter(tokens, cb) ==
    [lexer |-> tokens, w |-> <<>>, baseURL |-> <<>>, newBaseURL |-> <<>>,
     baseURLSet |-> FALSE, urlRewriter |-> cb, calls |-> <<>>]

\* the token lc.next() returns, and the rewriter after it
errorToken == [tt |-> "Error", rawData |-> <<>>, data |-> <<>>, text |-> "", attrVal |-> <<>>]
nextToken(lc) == IF lc.lexer = <<>> THEN errorToken ELSE Head(lc.lexer)
afterNext(lc) == IF lc.lexer = <<>> THEN lc ELSE [lc EXCEPT !.lexer = Tail(@)]

\* lc.w.Write(b)
written(lc, b) == [lc EXCEPT !.w = @ \o b]

\* results of the methods of the rewriter
ok(lc) == [err |-> "nil", lc |-> lc]
failed(err, lc) == [err |-> err, lc |-> lc]

\* attributeToken.cleanValue
isQuote(piece) == piece = "\"" \/ piece = "'"

cleanValue(at) ==
    IF Len(at.attrVal) > 0 /\ isQuote(at.attrVal[1])
    THEN IF Len(at.attrVal) < 2
         THEN [err |-> "no ending quote", quote |-> "", value |-> <<>>]
         ELSE IF at.attrVal[1] # at.attrVal[Len(at.attrVal)]
         THEN [err |-> "quote mismatch", quote |-> "", value |-> <<>>]
         ELSE [err |-> "nil", quote |-> at.attrVal[1],
               value |-> UnescapeString(SubSeq(at.attrVal, 2, Len(at.attrVal) - 1))]
    ELSE [err |-> "nil", quote |-> "\"", value |-> UnescapeString(at.attrVal)]

\* strings.Split(s, sep), for a separator of one piece
RECURSIVE Split(_, _)
Split(s, sep) ==
    IF \A i \in 1..Len(s) : s[i] # sep THEN <<s>>
    ELSE LET i == CHOOSE k \in 1..Len(s) : s[k] = sep /\ \A j \in 1..(k - 1) : s[j] # sep
         IN  <<SubSeq(s, 1, i - 1)>> \o Split(SubSeq(s, i + 1, Len(s)), sep)

\* strings.SplitN(s, " ", 2)
SplitN2(s) ==
    IF \A i \in 1..Len(s) : s[i] # " " THEN <<s>>
    ELSE LET i == CHOOSE k \in 1..Len(s) : s[k] = " " /\ \A j \in 1..(k - 1) : s[j] # " "
         IN  <<SubSeq(s, 1, i - 1), SubSeq(s, i + 1, Len(s))>>

\* strings.TrimSpace
RECURSIVE TrimLeft(_)
TrimLeft(s) == IF s # <<>> /\ Head(s) = " " THEN TrimLeft(Tail(s)) ELSE s
RECURSIVE TrimRight(_)
TrimRight(s) ==
    IF s # <<>> /\ s[Len(s)] = " " THEN TrimRight(SubSeq(s, 1, Len(s) - 1)) ELSE s
TrimSpace(s) == TrimRight(TrimLeft(s))

\* the URL values handed to the callback
urlInfo(value, base, newBase, type) ==
    [Value |-> value, Base |-> base, NewBase |-> newBase, Type |-> type]

\* results of the attribute handlers
handled(value, err, lc) == [value |-> value, err |-> err, lc |-> lc]

\* the result of a handler that returns what the callback returned
returned(c) == handled(c.r.value, c.r.err, c.lc)

urlAttribute(lc, attrValue) ==
    returned(callRewriter(lc, urlInfo(attrValue, lc.baseURL, lc.newBaseURL, "URLTypeUnknown")))

openGraphContentAttribute(lc, attrValue) ==
    returned(callRewriter(lc, urlInfo(attrValue, <<>>, <<>>, "URLTypeOpenGraph")))

\* urlListAttribute taking the whole value for one URL
urlListAttributeWhole(separator, lc, attrValue) == urlAttribute(lc, attrValue)

\* the loop of urlListAttribute over parts[i..], with the buffer so far;
\* urlListPart is the switch on the result c of the callback for parts[i]
RECURSIVE urlListParts(_, _, _, _, _, _)
urlListPart(c, parts, i, separator, buf, anyModified) ==
    CASE c.r.err = "ErrNotModified" ->
             urlListParts(c.lc, parts, i + 1, separator, buf \o parts[i], anyModified)
      [] c.r.err # "nil" -> handled(<<>>, c.r.err, c.lc)
      [] OTHER -> urlListParts(c.lc, parts, i + 1, separator, buf \o c.r.value, TRUE)

urlListParts(lc, parts, i, separator, buf, anyModified) ==
    IF i > Len(parts)
    THEN IF ~anyModified THEN handled(<<>>, "ErrNotModified", lc) ELSE handled(buf, "nil", lc)
    ELSE urlListPart(callRewriter(lc, urlInfo(parts[i], lc.baseURL, lc.newBaseURL,
                                              "URLTypeUnknown")),
                     parts, i, separator,
                     IF i > 1 THEN buf \o <<separator>> ELSE buf, anyModified)

urlListAttribute(separator, lc, attrValue) ==
    urlListParts(lc, Split(attrValue, separator), 1, separator, <<>>, FALSE)

\* the loop of srcSetAttribute over parts[i..], with the buffer so far;
\* srcSetURL is the switch on the result c of the callback for parts2[0],
\* srcSetPart the body of the loop for parts[i]
RECURSIVE srcSetParts(_, _, _, _, _)
srcSetURL(c, parts, i, parts2, buf, anyModified) ==
    CASE c.r.err = "ErrNotModified" ->
             srcSetParts(c.lc, parts, i + 1, buf \o parts[i], anyModified)
      [] c.r.err # "nil" -> handled(<<>>, c.r.err, c.lc)
      [] OTHER ->
             srcSetParts(c.lc, parts, i + 1,
                         buf \o c.r.value
                             \o (IF Len(parts2) > 1 THEN <<" ">> \o parts2[2] ELSE <<>>),
                         TRUE)

srcSetPart(lc, parts, i, trimmedPart, parts2, buf, anyModified) ==
    IF Len(trimmedPart) > 0 /\ Len(parts2) > 0
    THEN srcSetURL(callRewriter(lc, urlInfo(parts2[1], lc.baseURL, lc.newBaseURL,
                                            "URLTypeUnknown")),
                   parts, i, parts2, buf, anyModified)
    ELSE srcSetParts(lc, parts, i + 1, buf \o parts[i], anyModified)

srcSetParts(lc, parts, i, buf, anyModified) ==
    IF i > Len(parts)
    THEN IF ~anyModified THEN handled(<<>>, "ErrNotModified", lc) ELSE handled(buf, "nil", lc)
    ELSE srcSetPart(lc, parts, i, TrimSpace(parts[i]), SplitN2(TrimSpace(parts[i])),
                    IF i > 1 THEN buf \o <<",", " ">> ELSE buf, anyModified)

srcSetAttribute(lc, attrValue) == srcSetParts(lc, Split(attrValue, ","), 1, <<>>, FALSE)

\* refreshRegexp: spaces, digits, spaces, and then nothing or ;url= and the
\* rest; the submatches, or no match
isDigits(piece) == piece \in {"0", "5"}

noMatch == [ok |-> FALSE, m1 |-> <<>>, m2 |-> <<>>]

\* the match of what follows the digits
refreshRest(digits, rest) ==
    IF rest = <<>> THEN [ok |-> TRUE, m1 |-> <<digits>>, m2 |-> <<>>]
    ELSE IF Head(rest) = ";url=" THEN [ok |-> TRUE, m1 |-> <<digits>>, m2 |-> Tail(rest)]
    ELSE noMatch

\* the match of a value without the spaces before it
refreshDigits(s) ==
    IF s = <<>> \/ ~isDigits(Head(s)) THEN noMatch
    ELSE refreshRest(Head(s), TrimLeft(Tail(s)))

refreshMatch(attrValue) == refreshDigits(TrimLeft(attrValue))

\* httpEquivRefreshAttribute after the callback has returned c
refreshed(m, c) ==
    IF c.r.err # "nil" THEN handled(<<>>, c.r.err, c.lc)
    ELSE handled(m.m1 \o <<";url=">> \o c.r.value, "nil", c.lc)

\* httpEquivRefreshAttribute with the submatches m
refreshWith(lc, m) ==
    IF ~m.ok THEN handled(<<>>, "ErrNotModified", lc)
    ELSE refreshed(m, callRewriter(lc, urlInfo(m.m2, lc.baseURL, lc.newBaseURL,
                                               "URLTypeUnknown")))

httpEquivRefreshAttribute(lc, attrValue) == refreshWith(lc, refreshMatch(attrValue))

\* baseHrefAttribute after the callback has returned c
baseRewritten(c) ==
    CASE c.r.err = "ErrNotModified" ->
             handled(<<>>, "ErrNotModified", [c.lc EXCEPT !.newBaseURL = c.lc.baseURL])
      [] c.r.err # "nil" -> handled(<<>>, c.r.err, c.lc)
      [] OTHER -> handled(c.r.value, "nil", [c.lc EXCEPT !.newBaseURL = c.r.value])

baseHrefAttribute(lc, attrValue) ==
    IF lc.baseURLSet THEN handled(<<>>, "ErrNotModified", lc)
    ELSE baseRewritten(callRewriter([lc EXCEPT !.baseURL = attrValue],
                                    urlInfo(attrValue, <<>>, <<>>, "URLTypeBase")))

(***************************************************************************)
(* rewrite.HTML5: the attributes, the tags and the loop                    *)
(***************************************************************************)
\* attributeHandlers[attrName][tagName], nil where there is none
attributeHandlers(attrName, tagName) ==
    CASE attrName = "action" /\ tagName \in {"form"} -> "urlAttribute"
      [] attrName = "archive" /\ tagName = "object" -> "urlListAttribute space"
      [] attrName = "archive" /\ tagName = "applet" -> "urlListAttribute comma"
      [] attrName = "background" /\ tagName \in {"body"} -> "urlAttribute"
      [] attrName = "cite" /\ tagName \in {"blockquote", "del", "ins", "q"} -> "urlAttribute"
      [] attrName = "classid" /\ tagName \in {"object"} -> "urlAttribute"
      [] attrName = "codebase" /\ tagName \in {"applet", "object"} -> "urlAttribute"
      [] attrName = "data" /\ tagName \in {"object"} -> "urlAttribute"
      [] attrName = "formaction" /\ tagName \in {"button", "input"} -> "urlAttribute"
      [] attrName = "href" /\ tagName \in {"a", "area", "link"} -> "urlAttribute"
      [] attrName = "icon" /\ tagName \in {"command"} -> "urlAttribute"
      [] attrName = "longdesc" /\ tagName \in {"img", "frame", "iframe"} -> "urlAttribute"
      [] attrName = "manifest" /\ tagName \in {"html"} -> "urlAttribute"
      [] attrName = "poster" /\ tagName \in {"video"} -> "urlAttribute"
      [] attrName = "profile" /\ tagName \in {"head"} -> "urlAttribute"
      [] attrName = "src" /\ tagName \in {"audio", "embed", "iframe", "img", "input", "script",
                                          "source", "track", "video", "frame"} -> "urlAttribute"
      [] attrName = "srcset" /\ tagName \in {"img", "source"} -> "srcSetAttribute"
      [] attrName = "usemap" /\ tagName \in {"img", "input", "object"} -> "urlAttribute"
      [] OTHER -> "nil"

findHandler(tagName, attrName) == attributeHandlers(attrName, tagName)

\* the function processTag gives to rewriteAttributes for a base tag
baseHandler(tagName, attrName) == IF attrName # "href" THEN "nil" ELSE "baseHrefAttribute"

\* findHandlerFunc(tagName, lc.text())
foundHandler(find, tagName, attrName) ==
    IF find = "findHandler" THEN findHandler(tagName, attrName)
    ELSE baseHandler(tagName, attrName)

\* handler(lc, cleanValue)
applyHandler(handler, lc, value) ==
    CASE handler = "urlAttribute" -> urlAttribute(lc, value)
      [] handler = "urlListAttribute space" -> urlListAttribute(" ", lc, value)
      [] handler = "urlListAttribute comma" -> urlListAttribute(",", lc, value)
      [] handler = "srcSetAttribute" -> srcSetAttribute(lc, value)
      [] handler = "httpEquivRefreshAttribute" -> httpEquivRefreshAttribute(lc, value)
      [] handler = "openGraphContentAttribute" -> openGraphContentAttribute(lc, value)
      [] OTHER -> baseHrefAttribute(lc, value)

\* attributeToken.rewrite copying the attribute on any error of the handler
rewriteHandledCopying(at, quote, h) ==
    IF h.err # "nil" THEN ok(written(h.lc, at.rawData))
    ELSE ok(written(h.lc,
                    SubSeq(at.data, 1, Len(at.data) - Len(at.attrVal))
                        \o <<quote>> \o EscapeString(h.value) \o <<quote>>))

\* attributeToken.rewrite after the handler has returned h
rewriteHandled(at, quote, h) ==
    CASE h.err = "ErrNotModified" -> ok(written(h.lc, at.rawData))
      [] h.err # "nil" -> failed(h.err, h.lc)
      [] OTHER ->
             ok(written(h.lc,
                        SubSeq(at.data, 1, Len(at.data) - Len(at.attrVal))
                            \o <<quote>> \o EscapeString(h.value) \o <<quote>>))

\* attributeToken.rewrite after cleanValue has returned cv
rewriteClean(at, cv, lc, handler) ==
    IF cv.err # "nil" THEN failed(cv.err, lc)
    ELSE rewriteHandled(at, cv.quote, applyHandler(handler, lc, cv.value))

\* attributeToken.rewrite
rewrite(at, lc, handler) == rewriteClean(at, cleanValue(at), lc, handler)

\* rewriteAttributes; rewriteAttribute is the case of an attribute with a
\* handler, after rewrite has returned r, rewriteToken the switch on the
\* token tok with the rewriter lc after it
RECURSIVE rewriteAttributes(_, _, _)
rewriteAttribute(r, tagName, find) ==
    IF r.err # "nil" THEN r ELSE rewriteAttributes(r.lc, tagName, find)

rewriteToken(tok, lc, tagName, find) ==
    CASE tok.tt = "Attribute" ->
             IF foundHandler(find, tagName, tok.text) = "nil" THEN ok(written(lc, tok.rawData))
             ELSE rewriteAttribute(rewrite(tok, lc, foundHandler(find, tagName, tok.text)),
                                   tagName, find)
      [] tok.tt \in {"StartTagClose", "StartTagVoid"} -> ok(written(lc, tok.rawData))
      [] tok.tt = "Error" -> failed("EOF", lc)
      [] OTHER -> failed("unexpected token", lc)

rewriteAttributes(lc, tagName, find) ==
    rewriteToken(nextToken(lc), afterNext(lc), tagName, find)

\* readAttributes, with the attributes read so far; readToken is the switch
\* on the token tok with the rewriter lc after it
RECURSIVE readAttributes(_, _)
readToken(tok, lc, attributes) ==
    CASE tok.tt = "Attribute" -> readAttributes(lc, Append(attributes, tok))
      [] tok.tt \in {"StartTagClose", "StartTagVoid"} ->
             [attrs |-> attributes, closeTagRaw |-> tok.rawData, err |-> "nil", lc |-> lc]
      [] tok.tt = "Error" ->
             [attrs |-> attributes, closeTagRaw |-> <<>>, err |-> "EOF", lc |-> lc]
      [] OTHER ->
             [attrs |-> attributes, closeTagRaw |-> <<>>, err |-> "unexpected token", lc |-> lc]

readAttributes(lc, attributes) == readToken(nextToken(lc), afterNext(lc), attributes)

openGraphURLProperties ==
    {<<"image">>, <<"og:url">>, <<"og:image">>, <<"og:image:url">>, <<"og:image:secure_url">>,
     <<"og:video">>, <<"og:video:url">>, <<"og:video:secure_url">>,
     <<"og:audio">>, <<"og:audio:url">>, <<"og:audio:secure_url">>}

isOpenGraphURLProperty(name) == name \in openGraphURLProperties

\* the first loop of processMeta over attrs[i..]: the flags and itemProp;
\* metaItemProp is the case of itemprop and property, after cleanValue has
\* returned cv
RECURSIVE metaFlags(_, _, _, _)
metaItemProp(cv, attrs, i, flags, itemProp) ==
    IF cv.err # "nil" THEN [err |-> cv.err, flags |-> flags, itemProp |-> itemProp]
    ELSE metaFlags(attrs, i + 1, flags \cup {"metaFlagItemProp"}, cv.value)

metaFlags(attrs, i, flags, itemProp) ==
    IF i > Len(attrs) THEN [err |-> "nil", flags |-> flags, itemProp |-> itemProp]
    ELSE IF attrs[i].text = "http-equiv"
    THEN metaFlags(attrs, i + 1, flags \cup {"metaFlagRefresh"}, itemProp)
    ELSE IF attrs[i].text = "itemprop" \/ attrs[i].text = "property"
    THEN metaItemProp(cleanValue(attrs[i]), attrs, i, flags, itemProp)
    ELSE metaFlags(attrs, i + 1, flags, itemProp)

\* the loops of processMeta that write attrs[i..], the content attribute
\* through the handler, or all of them as they are when there is no handler;
\* writeContent is the case of content, after rewrite has returned r
RECURSIVE writeMeta(_, _, _, _)
writeContent(r, attrs, i, handler) ==
    IF r.err # "nil" THEN r ELSE writeMeta(r.lc, attrs, i + 1, handler)

writeMeta(lc, attrs, i, handler) ==
    IF i > Len(attrs) THEN ok(lc)
    ELSE IF handler # "nil" /\ attrs[i].text = "content"
    THEN writeContent(rewrite(attrs[i], lc, handler), attrs, i, handler)
    ELSE writeMeta(written(lc, attrs[i].rawData), attrs, i + 1, handler)

\* the handler of the content attribute for the flags of a meta tag
metaHandler(mf) ==
    CASE mf.flags = {"metaFlagRefresh"} -> "httpEquivRefreshAttribute"
      [] mf.flags = {"metaFlagItemProp"} /\ isOpenGraphURLProperty(mf.itemProp) ->
             "openGraphContentAttribute"
      [] OTHER -> "nil"

\* processMeta: after the attributes are written with result r, after the
\* flags mf are known, and after readAttributes has returned ra
metaClosed(r, closeTagRaw) ==
    IF r.err # "nil" THEN r ELSE ok(written(r.lc, closeTagRaw))

metaFlagged(ra, mf) ==
    IF mf.err # "nil" THEN failed(mf.err, ra.lc)
    ELSE metaClosed(writeMeta(ra.lc, ra.attrs, 1, metaHandler(mf)), ra.closeTagRaw)

metaRead(ra) ==
    IF ra.err # "nil" THEN failed(ra.err, ra.lc)
    ELSE metaFlagged(ra, metaFlags(ra.attrs, 1, {}, <<>>))

processMeta(lc) == metaRead(readAttributes(lc, <<>>))

processTag(lc, currentTag) ==
    CASE currentTag = "meta" -> processMeta(lc)
      [] currentTag = "base" -> rewriteAttributes(lc, currentTag, "baseHandler")
      [] OTHER -> rewriteAttributes(lc, currentTag, "findHandler")

ignoreEOF(err) == IF err = "EOF" THEN "nil" ELSE err

\* the loop of HTML5; afterTag is the start tag case after processTag has
\* returned r, loopToken the switch on the token tok with the rewriter lc
\* after it
RECURSIVE html5Loop(_)
afterTag(r) == IF r.err # "nil" THEN r ELSE html5Loop(r.lc)

loopToken(tok, lc) ==
    IF tok.tt = "Error" THEN failed(ignoreEOF("EOF"), lc)
    ELSE IF tok.tt = "StartTag"
    THEN afterTag(processTag(written(lc, tok.rawData), tok.text))
    ELSE html5Loop(written(lc, tok.rawData))

html5Loop(lc) == loopToken(nextToken(lc), afterNext(lc))

HTML5(input, cb) == html5Loop(newRewriter(input, cb))

(***************************************************************************)
(* The documents HTML5 is applied to: a text, a start tag with some        *)
(* attributes, and its end (closed, with or without an end tag after it),  *)
(* or the end of input inside the tag.                                     *)
(***************************************************************************)
startTagToken(name) ==
    [tt |-> "StartTag", rawData |-> <<"<", name>>, data |-> <<"<", name>>,
     text |-> name, attrVal |-> <<>>]

\* an attribute after one space, with = and a value or without
attributeToken(name, hasValue, val) ==
    LET bytes == <<" ", name>> \o (IF hasValue THEN <<"=">> \o val ELSE <<>>)
    IN  [tt |-> "Attribute", rawData |-> bytes, data |-> bytes, text |-> name, attrVal |-> val]

\* the end of a start tag, after spaces or not: the lexer skips the spaces
closeToken(tt, spaces, mark) ==
    [tt |-> tt, rawData |-> spaces \o <<mark>>, data |-> <<mark>>, text |-> "", attrVal |-> <<>>]

textToken == [tt |-> "Text", rawData |-> <<"1">>, data |-> <<"1">>, text |-> "", attrVal |-> <<>>]

endTagToken ==
    [tt |-> "EndTag", rawData |-> <<"</", "a", ">">>, data |-> <<"</", "a", ">">>,
     text |-> "a", attrVal |-> <<>>]

TagNames == {"a", "img", "meta", "base"}

\* attribute names and their values
NamedValues ==
    {<<"href", <<"1", "&amp;", ".html">> >>,
     <<"srcset", <<"a.png", " ", "1x", ",", " ", "b.png">> >>,
     <<"content", <<"5", ";url=", "2.html">> >>,
     <<"http-equiv", <<"refresh">> >>,
     <<"property", <<"og:url">> >>,
     <<"property", <<"og:title">> >>,
     <<"class", <<"x">> >>}

quoted(quote, v) == <<quote>> \o v \o <<quote>>

Attributes ==
    {attributeToken(nv[1], TRUE, quoted(qt, nv[2])) : nv \in NamedValues, qt \in {"\"", "'"}}
      \cup {attributeToken(nv[1], TRUE, nv[2]) :
                nv \in {x \in NamedValues : \A i \in 1..Len(x[2]) : x[2][i] # " "}}
      \cup {attributeToken("disabled", FALSE, <<>>)}

\* attributes whose quoted value the end of input cuts off
CutAttributes ==
    {attributeToken(n, TRUE, <<"\"">> \o v) : n \in {"href", "class"}, v \in {<<>>, <<"x">>}}

CloseTokens ==
    {closeToken("StartTagClose", <<>>, ">"), closeToken("StartTagClose", <<" ">>, ">"),
     closeToken("StartTagVoid", <<>>, "/>")}

\* the documents: the tokens of the lexer, and the bytes it reads with the
\* ErrorToken at the end of input
document(tokens, tail) == [tokens |-> tokens, tail |-> tail]

ClosedDocuments ==
    {document(<<textToken, startTagToken(t)>> \o attrs \o <<c>> \o after, <<>>) :
        t \in TagNames, attrs \in SeqsUpTo(Attributes, MaxAttrs), c \in CloseTokens,
        after \in {<<>>, <<endTagToken>>}}

OpenDocuments ==
    {document(<<textToken, startTagToken(t)>> \o attrs, tail) :
        t \in TagNames, attrs \in SeqsUpTo(Attributes, MaxAttrs), tail \in {<<>>, <<" ">>}}
      \cup {document(<<textToken, startTagToken(t)>> \o attrs \o <<cut>>, <<>>) :
                t \in TagNames, attrs \in SeqsUpTo(Attributes, MaxAttrs - 1),
                cut \in CutAttributes}

Documents == ClosedDocuments \cup OpenDocuments

notRun == [n |-> 0]

HTMLInit ==
    /\ CrawlInit
    /\ initialURLs = <<>>
    /\ StoreInit
    /\ \E d \in Documents, cb \in Callbacks : arg = [input |-> d, urlRewriter |-> cb]
    /\ ret = notRun

\* what HTML5 leaves: the error, the rewriter and its writer
returnedHTML5(r) == [n |-> 1, err |-> r.err, lc |-> r.lc]

\* HTML5(input, w, urlRewriter)
CallHTML5 ==
    /\ ret.n = 0
    /\ ret' = returnedHTML5(HTML5(arg.input.tokens, arg.urlRewriter))
    /\ UNCHANGED <<arg, crawlVars, storeVars>>

SpecHTML == HTMLInit /\ [][CallHTML5]_vars

(***************************************************************************)
(* rewrite.CSS                                                             *)
(* The lexer is the list of the tokens it will return, each with its type  *)
(* and its bytes as pieces; it leaves no byte out, so the bytes between    *)
(* the offsets before and after Lexer.Next are those of the token. After   *)
(* the last token it returns ErrorToken, and Lexer.Err is io.EOF at the    *)
(* end of input and nil before it.                                         *)
(***************************************************************************)
isWhiteSpace(piece) == piece \in {"\n", "\t", " "}

\* a backslash with hexadecimal digits and a space, and the rune it stands for
cssEscapes == {"\\a ", "\\22 ", "\\5c "}
escapedRune(piece) ==
    CASE piece = "\\a " -> "\n"
      [] piece = "\\22 " -> "\""
      [] OTHER -> "\\"

\* cssEscapeString that escapes nothing
cssEscapeStringPlain(value) == <<"\"">> \o value \o <<"\"">>

\* cssEscapeString: in double quotes, with newline, double quote and
\* backslash written as escapes
cssEscapeString(value) ==
    <<"\"">> \o [i \in 1..Len(value) |->
                    CASE value[i] = "\n" -> "\\a "
                      [] value[i] = "\"" -> "\\22 "
                      [] value[i] = "\\" -> "\\5c "
                      [] OTHER -> value[i]]
             \o <<"\"">>

\* the loop of cssUnescapeString from data[i] on, with the builder sb
RECURSIVE unescapeFrom(_, _, _, _)
unescapeFrom(data, i, quote, sb) ==
    CASE i > Len(data) -> [value |-> <<>>, size |-> Len(data), err |-> "unclosed string"]
      [] i <= Len(data) /\ data[i] = quote -> [value |-> sb, size |-> i, err |-> "nil"]
      [] i <= Len(data) /\ data[i] = "\n" ->
             [value |-> <<>>, size |-> i, err |-> "newline encountered"]
      [] i <= Len(data) /\ data[i] \in cssEscapes ->
             unescapeFrom(data, i + 1, quote, Append(sb, escapedRune(data[i])))
      [] OTHER -> unescapeFrom(data, i + 1, quote, Append(sb, data[i]))

\* cssUnescapeString: the value, the number of pieces consumed, the error
cssUnescapeString(data) ==
    IF data = <<>> \/ ~isQuote(data[1])
    THEN [value |-> <<>>, size |-> 0, err |-> "unexpected rune instead of quote"]
    ELSE unescapeFrom(data, 2, data[1], <<>>)

\* cssRewriter as CSS makes it: raw is input.Bytes()[startPos:endPos]; tt
\* and text are never assigned and keep their zero values
newCSSRewriter(tokens, cb) ==
    [lexer |-> tokens, w |-> <<>>, raw |-> <<>>, pushedBack |-> FALSE,
     urlRewriter |-> cb, calls |-> <<>>]

\* css.ErrorToken is the zero value of css.TokenType
zeroToken == [tt |-> "Error", text |-> <<>>]

\* the token lc.next() returns, and the rewriter after it
cssNextToken(lc) ==
    IF lc.pushedBack \/ lc.lexer = <<>> THEN zeroToken ELSE Head(lc.lexer)
cssAfterNext(lc) ==
    IF lc.pushedBack THEN [lc EXCEPT !.pushedBack = FALSE]
    ELSE IF lc.lexer = <<>> THEN [lc EXCEPT !.raw = <<>>]
    ELSE [lc EXCEPT !.lexer = Tail(@), !.raw = Head(lc.lexer).text]

pushBack(lc) == [lc EXCEPT !.pushedBack = TRUE]

\* lc.copy()
cssCopy(lc) == written(lc, lc.raw)

\* lc.err(), l.Err()
lexErr(lc) == IF lc.lexer = <<>> THEN "EOF" ELSE "nil"

cssURL(value) == urlInfo(value, <<>>, <<>>, "URLTypeCSS")

\* the index of the URL in a URL token: after url( and white space
RECURSIVE urlStartIndex(_, _)
urlStartIndex(token, i) ==
    IF i <= Len(token) /\ isWhiteSpace(token[i]) THEN urlStartIndex(token, i + 1) ELSE i

\* the index after an unquoted URL: before ) and the white space before it
RECURSIVE urlEndIndex(_, _, _)
urlEndIndex(token, start, end) ==
    IF end > start /\ isWhiteSpace(token[end - 1]) THEN urlEndIndex(token, start, end - 1)
    ELSE end

\* handleURLToken after the callback has returned c for token[start..end-1]
urlRewritten(token, start, end, c) ==
    CASE c.r.err = "ErrNotModified" -> ok(cssCopy(c.lc))
      [] c.r.err # "nil" -> failed(c.r.err, c.lc)
      [] OTHER ->
             ok(written(c.lc, SubSeq(token, 1, start - 1) \o cssEscapeString(c.r.value)
                                  \o SubSeq(token, end, Len(token))))

\* handleURLToken for a quoted string, which cssUnescapeString turned into u
urlQuoted(lc, token, start, u) ==
    IF u.err # "nil" THEN failed(u.err, lc)
    ELSE urlRewritten(token, start, start + u.size, callRewriter(lc, cssURL(u.value)))

\* handleURLToken for an unquoted URL that ends before end
urlUnquoted(lc, token, start, end) ==
    urlRewritten(token, start, end, callRewriter(lc, cssURL(SubSeq(token, start, end - 1))))

\* handleURLToken from urlStartIndex on
urlFrom(lc, token, start) ==
    IF start > Len(token) THEN failed("unexpected token end", lc)
    ELSE IF isQuote(token[start])
    THEN urlQuoted(lc, token, start, cssUnescapeString(SubSeq(token, start, Len(token))))
    ELSE urlUnquoted(lc, token, start, urlEndIndex(token, start, Len(token)))

\* handleURLToken; url( is one piece of four bytes, so a token of fewer than
\* five bytes is one of fewer than two pieces
handleURLToken(lc, token) ==
    IF Len(token) < 2 THEN failed("unexpected token length", lc)
    ELSE IF token[1] \notin {"url(", "URL("} THEN failed("unexpected token start", lc)
    ELSE IF token[Len(token)] # ")" THEN failed("unexpected token end", lc)
    ELSE urlFrom(lc, token, urlStartIndex(token, 2))

\* processImport after the callback has returned c for the string
importRewritten(c) ==
    CASE c.r.err = "ErrNotModified" -> ok(cssCopy(c.lc))
      [] c.r.err # "nil" -> failed(c.r.err, c.lc)
      [] OTHER -> ok(written(c.lc, cssEscapeString(c.r.value)))

\* processImport for a string token, which cssUnescapeString turned into u
importString(lc, token, u) ==
    IF u.err # "nil" THEN failed(u.err, lc)
    ELSE IF u.size # Len(token) THEN failed("string does not span whole string token", lc)
    ELSE importRewritten(callRewriter(lc, cssURL(u.value)))

\* processImport: the switch on the token after the white space
importArgument(tok, lc) ==
    CASE tok.tt = "Error" -> failed(lexErr(lc), lc)
      [] tok.tt = "String" -> importString(lc, tok.text, cssUnescapeString(tok.text))
      [] tok.tt = "URL" -> handleURLToken(lc, tok.text)
      [] OTHER -> ok(pushBack(lc))

\* processImport: the switch on the token after @import
importSpace(tok, lc) ==
    CASE tok.tt = "Error" -> failed(lexErr(lc), lc)
      [] tok.tt = "Whitespace" -> importArgument(cssNextToken(cssCopy(lc)),
                                                 cssAfterNext(cssCopy(lc)))
      [] OTHER -> ok(pushBack(lc))

processImport(lc) == importSpace(cssNextToken(cssCopy(lc)), cssAfterNext(cssCopy(lc)))

\* bytes.EqualFold(text, []byte("@import"))
isImport(token) == token \in {<<"@import">>, <<"@IMPORT">>}

\* the loop of CSS; cssHandled is what follows a handler that returned r,
\* cssToken the switch on the token tok with the rewriter lc after it
RECURSIVE cssLoop(_)
cssHandled(r) == IF r.err # "nil" THEN r ELSE cssLoop(r.lc)

cssToken(tok, lc) ==
    CASE tok.tt = "Error" -> failed(ignoreEOF(lexErr(lc)), lc)
      [] tok.tt = "URL" -> cssHandled(handleURLToken(lc, tok.text))
      [] tok.tt = "AtKeyword" /\ isImport(tok.text) -> cssHandled(processImport(lc))
      [] OTHER -> cssLoop(cssCopy(lc))

cssLoop(lc) == cssToken(cssNextToken(lc), cssAfterNext(lc))

CSS(input, cb) == cssLoop(newCSSRewriter(input, cb))

(***************************************************************************)
(* The documents rewrite.Document is applied to: pages of several start    *)
(* tags, and style sheets.                                                 *)
(***************************************************************************)
\* the callbacks of the pages and style sheets
DocumentCallbacks == Callbacks \cup {"moves a", "moves b", "fails on b", "quotes"}

doubleQuoted(name, val) == attributeToken(name, TRUE, quoted("\"", val))

\* the attributes a tag of the pages may have
TagAttributes(t) ==
    CASE t = "a" ->
             {doubleQuoted("href", <<"a.html">>), doubleQuoted("href", <<"b.html">>),
              doubleQuoted("class", <<"x">>)}
      [] t = "base" ->
             {doubleQuoted("href", <<"http://a/">>), doubleQuoted("href", <<"http://b/">>),
              doubleQuoted("target", <<"x">>)}
      [] t = "meta" ->
             {doubleQuoted("content", <<"5", ";url=", "b.html">>),
              doubleQuoted("http-equiv", <<"refresh">>),
              doubleQuoted("http-equiv", <<"content-type">>),
              doubleQuoted("property", <<"og:url">>)}
      [] t = "img" ->
             {doubleQuoted("srcset", <<"a.png", " ", "1x", ",", " ", "b.png">>),
              doubleQuoted("class", <<"x">>)}
      [] t = "object" ->
             {doubleQuoted("archive", <<"a.jar", " ", "b.jar">>),
              doubleQuoted("class", <<"x">>)}
      [] OTHER -> {doubleQuoted("archive", <<"b.jar", ",", "a.jar">>)}

PageTagNames == {"a", "base", "meta", "img", "object", "applet"}

\* a start tag with its attributes and its end
startTag(t, attrs) == <<startTagToken(t)>> \o attrs \o <<closeToken("StartTagClose", <<>>, ">")>>

StartTags ==
    UNION {{startTag(t, attrs) : attrs \in SeqsUpTo(TagAttributes(t), MaxAttrs)} :
              t \in PageTagNames}

\* the concatenation of a list of token lists
RECURSIVE concat(_)
concat(lists) == IF lists = <<>> THEN <<>> ELSE Head(lists) \o concat(Tail(lists))

\* the pages: some start tags, with or without a base tag before them
Pages ==
    {document(head \o concat(tags), <<>>) :
        head \in {<<>>, startTag("base", <<doubleQuoted("href", <<"http://a/">>)>>)},
        tags \in SeqsUpTo(StartTags, MaxTags)}

styleToken(tt, bytes) == [tt |-> tt, text |-> bytes]

importToken == styleToken("AtKeyword", <<"@import">>)
spaceToken == styleToken("Whitespace", <<" ">>)

StyleTokens ==
    {styleToken("AtKeyword", <<"@media">>), spaceToken,
     styleToken("String", <<"\"", "a.css", "\"">>),
     styleToken("String", <<"'", "b.css", "\\22 ", "'">>),
     styleToken("URL", <<"url(", "a.png", ")">>),
     styleToken("URL", <<"url(", "\t", "b.png", " ", "\n", ")">>),
     styleToken("URL", <<"url(", " ", "\"", "b.png", "\"", " ", ")">>),
     styleToken("URL", <<"URL(", "'", "a.png", "'", ")">>),
     styleToken("Ident", <<"print">>),
     styleToken("Semicolon", <<";">>)}

\* what the lexer can return: white space is one token, and the name of an
\* at-keyword or an identifier runs on into an identifier or url( after it
lexable(tokens) ==
    \A i \in 1..(Len(tokens) - 1) :
        /\ ~(tokens[i].tt = "Whitespace" /\ tokens[i + 1].tt = "Whitespace")
        /\ ~(tokens[i].tt \in {"AtKeyword", "Ident"} /\ tokens[i + 1].tt \in {"Ident", "URL"})

\* the style sheets: some tokens, after @import and white space or not
Stylesheets ==
    {d \in {document(head \o tokens, <<>>) :
                head \in {<<>>, <<importToken>>, <<importToken, spaceToken>>,
                          <<styleToken("AtKeyword", <<"@IMPORT">>), spaceToken>>},
                tokens \in SeqsUpTo(StyleTokens, MaxTokens)} :
        lexable(d.tokens)}

DocumentInit ==
    /\ CrawlInit
    /\ initialURLs = <<>>
    /\ StoreInit
    /\ \E cb \in DocumentCallbacks :
          \/ \E d \in Pages : arg = [mediaType |-> "text/html", input |-> d, urlRewriter |-> cb]
          \/ \E d \in Stylesheets :
                arg = [mediaType |-> "text/css", input |-> d, urlRewriter |-> cb]
    /\ ret = notRun

\* what CSS leaves: the error, the rewriter and its writer
returnedCSS(r) == [n |-> 1, err |-> r.err, lc |-> r.lc]

\* Document for text/html
DocumentHTML5 ==
    /\ ret.n = 0
    /\ arg.mediaType = "text/html"
    /\ ret' = returnedHTML5(HTML5(arg.input.tokens, arg.urlRewriter))
    /\ UNCHANGED <<arg, crawlVars, storeVars>>

\* Document for text/css
DocumentCSS ==
    /\ ret.n = 0
    /\ arg.mediaType = "text/css"
    /\ ret' = returnedCSS(CSS(arg.input.tokens, arg.urlRewriter))
    /\ UNCHANGED <<arg, crawlVars, storeVars>>

Document == DocumentHTML5 \/ DocumentCSS

SpecDocument == DocumentInit /\ [][Document]_vars

(***************************************************************************)
(* scrapeTask and the redirects of one fetch: the client sends a request,  *)
(* calls CheckRedirect on every redirect response and follows it when      *)
(* CheckRedirect returns nil                                               *)
(***************************************************************************)
\* the URLs of the chain: the server redirects each one to the next, and
\* the last one to the first. The first two have the same key
ChainURLs ==
    <<text("http", "example.com", <<FALSE, "">>, <<"/", "a">>, FALSE, <<>>, <<FALSE, "">>),
      text("HTTP", "EXAMPLE.COM", <<TRUE, "80">>, <<"/", "a">>, TRUE,
           << <<"utm_source", "hello">> >>, <<FALSE, "">>),
      text("https", "example.com", <<FALSE, "">>, <<"/", "a">>, TRUE,
           << <<"b", "hello">>, <<"a", "hello">> >>, <<TRUE, "top">>),
      text("http", "example.org", <<FALSE, "">>, <<>>, FALSE, <<>>, <<FALSE, "">>)>>

\* the Location header of the redirect response to a request
Location(url) ==
    LET i == CHOOSE j \in DOMAIN ChainURLs : ChainURLs[j] = url
    IN  ChainURLs[(i % Len(ChainURLs)) + 1]

\* client.CheckRedirect of the Scraper: nil, or a policy that follows every
\* redirect, or one that follows none
CheckRedirectPolicies == {"nil", "follow", "refuse"}

originalCheckRedirect(policy, via) ==
    IF policy = "follow" THEN "nil" ELSE "refused by the client"

\* the end of scrapeTask's CheckRedirect with a limit that lets ten
\* redirects be followed
checkRedirectAfterTen(policy, via) ==
    IF policy = "nil"
    THEN IF Len(via) > RedirectLimit THEN "stopped after 10 redirects" ELSE "nil"
    ELSE originalCheckRedirect(policy, via)

\* the end of scrapeTask's CheckRedirect, after processResponse returned
\* nil: via holds the requests made so far, the oldest first
checkRedirect(policy, via) ==
    IF policy = "nil"
    THEN IF Len(via) >= RedirectLimit THEN "stopped after 10 redirects" ELSE "nil"
    ELSE originalCheckRedirect(policy, via)

\* processResponse of the response to the request for url: storeResponse
\* fails, or it stores the response under the key of resp.Request.URL and
\* the rest of processResponse fails or not
ProcessErrors == {"nil", "store failed", "rewrite failed"}

processResponse(log, url, err) ==
    IF err = "store failed" THEN log ELSE Append(log, Key(Parse(url)))

notStarted ==
    [pc |-> "Limiter.Wait", req |-> <<>>, via |-> <<>>, log |-> <<>>,
     err |-> "nil", done |-> FALSE]

\* a task, the number of redirect responses the server gives before the
\* final response, and the CheckRedirect of the client
ScrapeInit ==
    /\ CrawlInit
    /\ initialURLs = <<>>
    /\ StoreInit
    /\ \E url \in {ChainURLs[i] : i \in DOMAIN ChainURLs}, n \in 0..MaxChain,
          policy \in CheckRedirectPolicies :
          arg = [downloadURL |-> url, redirects |-> n, CheckRedirect |-> policy]
    /\ ret = notStarted

\* scrapeTask returns err: what is left is the deferred function
returns(r, err) == [r EXCEPT !.pc = "deferred", !.err = err]

\* s.Limiter.Wait and http.NewRequest
LimiterWait ==
    /\ ret.pc = "Limiter.Wait"
    /\ \E err \in {"nil", "limiter failed"} :
          ret' = IF err = "nil"
                 THEN [ret EXCEPT !.pc = "client.Do", !.req = arg.downloadURL]
                 ELSE returns(ret, err)
    /\ UNCHANGED <<arg, crawlVars, storeVars>>

\* client.Do sends the request: the transport fails, or the server answers
\* with a redirect or with the final response
ClientDo ==
    /\ ret.pc = "client.Do"
    /\ \E err \in {"nil", "transport failed"} :
          ret' = IF err # "nil" THEN returns(ret, err)
                 ELSE [ret EXCEPT !.via = Append(@, ret.req),
                                  !.pc = IF Len(ret.via) < arg.redirects
                                         THEN "CheckRedirect"
                                         ELSE "processResponse"]
    /\ UNCHANGED <<arg, crawlVars, storeVars>>

\* what CheckRedirect returned: client.Do returns the error, or sends the
\* request for the Location
redirected(r, err) ==
    IF err # "nil" THEN returns(r, err)
    ELSE [r EXCEPT !.pc = "client.Do", !.req = Location(r.req)]

\* the CheckRedirect of scrapeTask, called with the request to send next:
\* req.Response is the redirect response
CheckRedirect ==
    /\ ret.pc = "CheckRedirect"
    /\ \E err \in ProcessErrors :
          LET r == [ret EXCEPT !.log = processResponse(@, ret.req, err)]
          IN  ret' = IF err # "nil" THEN returns(r, err)
                     ELSE redirected(r, checkRedirect(arg.CheckRedirect, ret.via))
    /\ UNCHANGED <<arg, crawlVars, storeVars>>

\* client.Do returned the final response: processResponse, and return
ProcessFinal ==
    /\ ret.pc = "processResponse"
    /\ \E err \in ProcessErrors :
          ret' = returns([ret EXCEPT !.log = processResponse(@, ret.req, err)], err)
    /\ UNCHANGED <<arg, crawlVars, storeVars>>

\* the deferred function: doneTasks <- t
TaskDone ==
    /\ ret.pc = "deferred"
    /\ ret' = [ret EXCEPT !.pc = "returned", !.done = TRUE]
    /\ UNCHANGED <<arg, crawlVars, storeVars>>

ScrapeTask == LimiterWait \/ ClientDo \/ CheckRedirect \/ ProcessFinal \/ TaskDone

SpecRedirect == ScrapeInit /\ [][ScrapeTask]_vars

(***************************************************************************)
(* processResponse: storeResponse, and for a supported media type the      *)
(* rewriter with the callback that offers the references of the document   *)
(***************************************************************************)
\* mime.ParseMediaType of the content-type header: the media type in lower
\* case and the charset parameter, or an error
ContentTypes ==
    {"", "text/html", "TEXT/HTML", "text/css", "text/html; charset=utf-8",
     "text/css; charset=UTF-8", "text/html; charset=latin1", "image/png"}

ParseMediaType(v) ==
    CASE v = "" -> [mediatype |-> "", charset |-> "", err |-> "mime: no media type"]
      [] v \in {"text/html", "TEXT/HTML"} ->
            [mediatype |-> "text/html", charset |-> "", err |-> "nil"]
      [] v = "text/css" -> [mediatype |-> "text/css", charset |-> "", err |-> "nil"]
      [] v = "text/html; charset=utf-8" ->
            [mediatype |-> "text/html", charset |-> "utf-8", err |-> "nil"]
      [] v = "text/css; charset=UTF-8" ->
            [mediatype |-> "text/css", charset |-> "UTF-8", err |-> "nil"]
      [] v = "text/html; charset=latin1" ->
            [mediatype |-> "text/html", charset |-> "latin1", err |-> "nil"]
      [] OTHER -> [mediatype |-> v, charset |-> "", err |-> "nil"]

\* strings.EqualFold(s, "utf-8")
equalFoldUTF8(s) == s \in {"utf-8", "UTF-8"}

isSupportedMediaType(mediatype, charset) ==
    IF mediatype # "text/html" /\ mediatype # "text/css" THEN FALSE
    ELSE charset = "" \/ equalFoldUTF8(charset)

\* supportedContentType of processResponse
supportedContentType(parsed) ==
    parsed.err = "nil" /\ isSupportedMediaType(parsed.mediatype, parsed.charset)

\* the URLs of the requests, and the references of the documents: a path
\* next to the document, a URL of the site with a tracking parameter, a URL
\* of another site, and text that url.Parse rejects
documentURL == text("http", "example.com", <<FALSE, "">>, <<"/", "a">>, FALSE, <<>>, <<FALSE, "">>)
rootURL == text("HTTPS", "EXAMPLE.COM", <<TRUE, "443">>, <<>>, FALSE, <<>>, <<TRUE, "top">>)
siblingReference == text("", "", <<FALSE, "">>, <<"b">>, FALSE, <<>>, <<FALSE, "">>)
trackedReference ==
    text("http", "EXAMPLE.COM", <<FALSE, "">>, <<"/", "a">>, TRUE,
         << <<"utm_source", "hello">> >>, <<FALSE, "">>)
foreignReference == text("http", "example.org", <<FALSE, "">>, <<"/">>, FALSE, <<>>, <<FALSE, "">>)

\* the strings of the references, in pieces: the text of a URL, white space
\* or a colon
textOf(piece) ==
    CASE piece = "b" -> siblingReference
      [] piece = "http://EXAMPLE.COM/a?utm_source=hello" -> trackedReference
      [] piece = "http://example.org/" -> foreignReference
      [] piece = "HTTPS://EXAMPLE.COM:443#top" -> rootURL
      [] OTHER -> documentURL

\* url.Parse of a string of pieces: of the strings of the model it rejects
\* the ones that begin with a colon or hold white space
parseReference(s) ==
    IF Len(s) = 1 /\ s[1] \notin {":", " "}
    THEN [url |-> Parse(textOf(s[1])), err |-> "nil"]
    ELSE [url |-> nilURL, err |-> "parse error"]

\* the path up to its last slash
RECURSIVE directory(_)
directory(path) ==
    IF path = <<>> THEN <<"/">>
    ELSE IF path[Len(path)] = "/" THEN path
    ELSE directory(SubSeq(path, 1, Len(path) - 1))

\* URL.ResolveReference
ResolveReference(base, ref) ==
    IF ref.Scheme # "" THEN ref
    ELSE IF ~emptyHost(ref.Host) THEN [ref EXCEPT !.Scheme = base.Scheme]
    ELSE IF ref.Path = <<>> /\ ref.RawQuery = <<>> /\ ~ref.ForceQuery
    THEN [base EXCEPT !.Fragment = ref.Fragment]
    ELSE [base EXCEPT !.Path = IF ref.Path # <<>> /\ Head(ref.Path) = "/"
                               THEN ref.Path ELSE directory(base.Path) \o ref.Path,
                      !.RawQuery = ref.RawQuery, !.ForceQuery = ref.ForceQuery,
                      !.Fragment = ref.Fragment]

\* s.FollowURL: nil, or the predicate of main, which admits the URLs under
\* the roots
FollowPolicies == {"nil", "roots"}
underRoots(u) == u.Scheme \in {"http", "https"} /\ ToLower(Hostname(u)) = "example.com"

noTask == [none |-> TRUE]

\* what the callback does once the reference is resolved
followed(policy, absoluteURL) ==
    IF policy = "nil" \/ ~underRoots(absoluteURL)
    THEN [value |-> "", err |-> "ErrNotModified", task |-> noTask]
    ELSE [value |-> "", err |-> "ErrNotModified",
          task |-> [downloadURL |-> absoluteURL, key |-> Key(absoluteURL)]]

\* what it does once the reference is parsed: the base of the rewriter, or
\* the URL of the request when the rewriter has none
resolved(policy, requestURL, referenceURL, u, base) ==
    IF u.Base = <<>> THEN followed(policy, ResolveReference(requestURL, referenceURL))
    ELSE IF base.err # "nil"
    THEN [value |-> "", err |-> "parsing base url", task |-> noTask]
    ELSE followed(policy, ResolveReference(base.url, referenceURL))

rewriterParsed(policy, requestURL, parsed, u) ==
    IF parsed.err # "nil" THEN [value |-> "", err |-> "nil", task |-> noTask]
    ELSE resolved(policy, requestURL, parsed.url, u, parseReference(u.Base))

\* the rewriter callback of processResponse that returns ErrNotModified for
\* a reference that does not parse
rewriterSkipping(policy, requestURL, u) ==
    IF parseReference(TrimSpace(u.Value)).err # "nil"
    THEN [value |-> "", err |-> "ErrNotModified", task |-> noTask]
    ELSE rewriterParsed(policy, requestURL, parseReference(TrimSpace(u.Value)), u)

\* the rewriter callback of processResponse, for the rewrite.URL u: what it
\* returns and the task it sends on newTasks, if any
rewriter(policy, requestURL, u) ==
    rewriterParsed(policy, requestURL, parseReference(TrimSpace(u.Value)), u)

\* the meta of storeResponse with the status of the response
storeResponseMetaWithStatus(resp, startTime) ==
    [Key |-> Key(Parse(resp.Request.URL)),
     DownloadStartedTime |-> startTime,
     URL |-> String(Parse(resp.Request.URL)),
     Status |-> resp.Status, StatusCode |-> resp.StatusCode, Proto |-> resp.Proto,
     Headers |-> resp.Header,
     Trailers |-> <<>>]

\* the DocumentMetadata storeResponse builds: the fields it does not name
\* have their zero values
storeResponseMeta(resp, startTime) ==
    [Key |-> Key(Parse(resp.Request.URL)),
     DownloadStartedTime |-> startTime,
     URL |-> String(Parse(resp.Request.URL)),
     Status |-> "", StatusCode |-> 0, Proto |-> "",
     Headers |-> resp.Header,
     Trailers |-> <<>>]

Statuses ==
    {[Status |-> "200 OK", StatusCode |-> 200, Proto |-> "HTTP/1.1"],
     [Status |-> "404 Not Found", StatusCode |-> 404, Proto |-> "HTTP/2.0"]}

\* the rewrite.URL values the rewriter passes for the references of a body
BaseValues == {<<>>, <<"HTTPS://EXAMPLE.COM:443#top">>, <<":">>}
ReferenceValues ==
    {<<"b">>, <<" ", "b", " ">>, <<"http://EXAMPLE.COM/a?utm_source=hello">>,
     <<"http://example.org/">>, <<":">>}
References == [Value : ReferenceValues, Base : BaseValues]

Responses ==
    {[Status |-> s.Status, StatusCode |-> s.StatusCode, Proto |-> s.Proto,
      Header |-> [ContentType |-> ct], Request |-> [URL |-> url], Body |-> body] :
        s \in Statuses, ct \in ContentTypes, url \in {documentURL, rootURL},
        body \in SeqsUpTo(References, MaxReferences)}

noDocument == [none |-> TRUE]

beforeStore ==
    [pc |-> "storeResponse", doc |-> noDocument, rest |-> <<>>, returned |-> <<>>,
     newTasks |-> <<>>, err |-> "nil"]

ResponseInit ==
    /\ CrawlInit
    /\ initialURLs = <<>>
    /\ StoreInit
    /\ \E resp \in Responses, policy \in FollowPolicies, startTime \in 1..2 :
          arg = [resp |-> resp, FollowURL |-> policy, startTime |-> startTime]
    /\ ret = beforeStore

\* processResponse returns err
responseReturns(r, err) == [r EXCEPT !.pc = "returned", !.err = err, !.rest = <<>>]

\* processResponse that goes on to the rewriter when storeResponse failed
afterStoreIgnoringError(r, supported, mediatype, err) ==
    IF ~supported THEN responseReturns(r, "nil")
    ELSE IF mediatype \in {"text/html", "text/css"}
    THEN [r EXCEPT !.pc = "rewrite", !.rest = arg.resp.Body]
    ELSE responseReturns(r, "unsupported media type")

\* processResponse after storeResponse returned err: the return on an error
\* and for an unsupported content type, and the switch on the media type
afterStore(r, supported, mediatype, err) ==
    IF err # "nil" THEN responseReturns(r, err)
    ELSE IF ~supported THEN responseReturns(r, "nil")
    ELSE IF mediatype \in {"text/html", "text/css"}
    THEN [r EXCEPT !.pc = "rewrite", !.rest = arg.resp.Body]
    ELSE responseReturns(r, "unsupported media type")

\* Repository.Store fails and leaves nothing, or it stores the document:
\* its meta and its body; closing the body of the response may fail then
StoreErrors == {"nil", "store failed", "close failed"}

storeResponse(r, err) ==
    IF err = "store failed" THEN r
    ELSE [r EXCEPT !.doc = [Metadata |-> storeResponseMeta(arg.resp, arg.startTime),
                            Body |-> arg.resp.Body]]

ResponseStore ==
    /\ ret.pc = "storeResponse"
    /\ \E err \in StoreErrors :
          ret' = afterStore(storeResponse(ret, err),
                            supportedContentType(ParseMediaType(arg.resp.Header.ContentType)),
                            ParseMediaType(arg.resp.Header.ContentType).mediatype, err)
    /\ UNCHANGED <<arg, crawlVars, storeVars>>

\* the rewriter after the callback returned c: it goes on unless c is an
\* error other than ErrNotModified
calledBack(r, c) ==
    LET r1 == [r EXCEPT !.returned = Append(@, [value |-> c.value, err |-> c.err]),
                        !.newTasks = IF c.task = noTask THEN @ ELSE Append(@, c.task),
                        !.rest = Tail(@)]
    IN  IF c.err \in {"nil", "ErrNotModified"} THEN r1 ELSE responseReturns(r1, c.err)

\* the rewriter calls the callback for the next reference of the document
ResponseCallback ==
    /\ ret.pc = "rewrite"
    /\ ret.rest # <<>>
    /\ ret' = calledBack(ret, rewriter(arg.FollowURL, Parse(arg.resp.Request.URL), Head(ret.rest)))
    /\ UNCHANGED <<arg, crawlVars, storeVars>>

\* the rewriter returns: at the end of the document, or with an error of
\* its own before it
ResponseRewritten ==
    /\ ret.pc = "rewrite"
    /\ \E err \in {"nil", "rewriter failed"} :
          /\ err = "nil" => ret.rest = <<>>
          /\ ret' = responseReturns(ret, err)
    /\ UNCHANGED <<arg, crawlVars, storeVars>>

ProcessResponse == ResponseStore \/ ResponseCallback \/ ResponseRewritten

SpecResponse == ResponseInit /\ [][ProcessResponse]_vars

(***************************************************************************)
(* The specifications                                                      *)
(***************************************************************************)
Init == CrawlInit /\ StoreInit /\ NoCall

Next == QueueNext \/ \E w \in Workers : WorkerNext(w)

Spec == Init /\ [][Next]_vars

\* the crawl of a fixed site: the fetcher is a function of the key
SiteInit ==
    /\ initialURLs \in SeqsUpTo(URLs, 1)
    /\ page \in [Keys -> SitePages]
    /\ mem = [i \in 1..Len(initialURLs) |-> newTask(initialURLs[i])]
    /\ q = [head |-> Nil, tail |-> Nil]
    /\ addedKeys = {}
    /\ incompleteTasks = 0
    /\ qpc = "start"
    /\ worker = [w \in Workers |-> idleWorker]
    /\ delivered = <<>>
    /\ doneCnt = [i \in 1..Len(initialURLs) |-> 0]
    /\ logged = FALSE
    /\ lastIn = "none"
    /\ StoreInit
    /\ NoCall

SpecSite == SiteInit /\ [][Next]_vars

\* the crawls that start from the first URL: given not at all, once, or
\* several times
FairInit ==
    /\ CrawlInit
    /\ \A i \in DOMAIN initialURLs : initialURLs[i] = 1
    /\ StoreInit
    /\ NoCall

SpecFair ==
    /\ FairInit /\ [][Next]_vars
    /\ WF_vars(QueueNext)
    /\ \A w \in Workers : WF_vars(WorkerNext(w))

\* the files Load may find at a final path when anything may have written
\* them: a file that ends inside the header, or a header of any fields
\* followed by any data
AnyFiles ==
    [hdr : {zeroHeader}, hn : 0..4, data : {<<>>}, live : {TRUE}]
        \cup [hdr : {Magic, zeroHeader[1]} \X (0..MaxBodySize) \X {0, sha256(<<1>>)}
                      \X (0..MaxData)
                      \X {0, ChecksumIEEE(Marshal([Key |-> 1])), ChecksumIEEE(<<123, 125>>)},
               hn : {5},
               data : SeqsUpTo({1, 123, 125}, MaxData),
               live : {TRUE}]

\* Load on a directory that holds any file at the final path of the first key
LoadInit ==
    /\ CrawlInit
    /\ initialURLs = <<>>
    /\ dir = [n \in Names |-> IF n \in ForeignNames THEN Foreign
                               ELSE IF n = keyToFilename(1) THEN 1 ELSE Nil]
    /\ \E F \in AnyFiles : files = [i \in Writers |-> IF i = 1 THEN F ELSE NoFile]
    /\ dw = [w \in Writers |-> newWriter]
    /\ rd = idleReader
    /\ NoCall

SpecLoad == LoadInit /\ [][ReaderNext]_vars

\* the store alone: no crawl is running
StoreOnlyInit ==
    /\ CrawlInit
    /\ initialURLs = <<>>
    /\ StoreInit
    /\ NoCall

SpecStore == StoreOnlyInit /\ [][StoreNext]_vars

(***************************************************************************)
(* The crawl: what the claims speak of                                     *)
(***************************************************************************)
Range(f) == {f[i] : i \in DOMAIN f}

\* the pending list of the queue, head first
pending == toSlice(List(mem, q))

\* the tasks delivered on out and not yet reported on doneTask
outstanding == {t \in Range(delivered) : doneCnt[t] = 0}

RECURSIVE sumTo(_, _)
sumTo(f, n) == IF n = 0 THEN 0 ELSE f[n] + sumTo(f, n - 1)
\* the number of done signals the queue has received
doneSignals == sumTo(doneCnt, Len(doneCnt))

queueReturned == qpc \notin {"start", "loop"}

\* the task worker w is processing, if any
busy(w) == worker[w].pc \in {"limiter", "do", "rewrite", "done"}

C2_ScrapeReturns ==
    <>(ScrapeReturned /\ incompleteTasks = 0 /\ outClosed)

\* Scrape has returned from a crawl in which offered tasks were processed
C2_Witness ==
    /\ ScrapeReturned
    /\ Len(delivered) > Len(initialURLs)
    /\ Len(initialURLs) = 2

(***************************************************************************)
(* C3: when the queue receives on in a task whose key it accepted through  *)
(* an earlier offer, the pending list and its order, the seen set, the     *)
(* count of incomplete tasks and the task objects are unchanged and        *)
(* nothing is delivered; so of the offered tasks no two have the same key  *)
(* and none is delivered twice.                                            *)
(***************************************************************************)
C3_DuplicateOfferSkipped ==
    /\ [][\A w \in Workers, u \in URLs :
             (Offer(w, u) /\ taskKey(u) \in addedKeys) =>
                 /\ toSlice(List(mem', q')) = pending
                 /\ addedKeys' = addedKeys
                 /\ incompleteTasks' = incompleteTasks
                 /\ mem' = mem
                 /\ delivered' = delivered]_vars
    /\ [](\A s, t \in DOMAIN mem :
             (s > Len(initialURLs) /\ t > s) => mem[s].key # mem[t].key)
    /\ [](\A i, j \in DOMAIN delivered : i # j => delivered[i] # delivered[j])

\* the queue has just skipped a task while another task was pending
C3_Witness ==
    /\ lastIn = "skipped"
    /\ pending # <<>>
    /\ Cardinality(addedKeys) = 2

(***************************************************************************)
(* C4: for every key of initialTasks exactly one task with that key is     *)
(* placed on the pending list and delivered, however many initial tasks    *)
(* carry the key.                                                          *)
(***************************************************************************)
C4_InitialDuplicatesSuppressed ==
    \A i \in DOMAIN initialURLs :
        LET same == {t \in 1..Len(initialURLs) : mem[t].key = taskKey(initialURLs[i])}
        IN  /\ qpc = "loop" =>
                 Cardinality(same \cap (Range(pending) \cup Range(delivered))) = 1
            /\ queueReturned => Cardinality(same \cap Range(delivered)) = 1

(***************************************************************************)
(* C5: when Scrape has returned from a crawl of a fixed site in which no   *)
(* task failed, the seen set is the set of keys reachable from the initial *)
(* keys through admitted references, the initial keys included, and every  *)
(* key of that set has been fetched.                                       *)
(***************************************************************************)
\* the keys a fetch of key k discovers and FollowURL admits
admitted(k) == {taskKey(u) : u \in {v \in Range(page[k].links) : FollowURL(v)}}

RECURSIVE closure(_)
closure(S) ==
    LET N == S \cup UNION {admitted(k) : k \in S}
    IN  IF N = S THEN S ELSE closure(N)

initialKeys == {taskKey(initialURLs[i]) : i \in DOMAIN initialURLs}

\* the keys of the tasks a worker has processed to the end
fetchedKeys == {mem[t].key : t \in {d \in Range(delivered) : doneCnt[d] = 1}}

C5_SeenIsClosure ==
    (ScrapeReturned /\ ~logged) =>
        /\ addedKeys = closure(initialKeys)
        /\ closure(initialKeys) \subseteq fetchedKeys

(***************************************************************************)
(* C6: tasks are delivered in the order in which the queue accepted them,  *)
(* the initial tasks in list order and then the offered ones as received;  *)
(* popLeft returns the head of the list, or nil for the empty list, and    *)
(* leaves the rest in order; pushLeft of the task just taken restores the  *)
(* list.                                                                   *)
(***************************************************************************)
C6_DeliveredInAcceptedOrder ==
    /\ qpc # "start" => delivered \o pending = [i \in 1..Len(mem) |-> i]
    /\ popped.t = (IF pending = <<>> THEN Nil ELSE Head(pending))
    /\ pending # <<>> => toSlice(popped.L) = Tail(pending)
    /\ toSlice(restore(popped.L, popped.t)) = pending
    /\ toSlice(popLeft(popped.L).L) = (IF Len(pending) > 1 THEN Tail(Tail(pending)) ELSE <<>>)

\* three tasks were delivered, an offered one among them, and one is pending
C6_Witness ==
    /\ Len(initialURLs) = 2
    /\ Len(delivered) = 3
    /\ Len(pending) = 1

(***************************************************************************)
(* C7: a worker sends a task it received on doneTasks exactly once, after  *)
(* everything else it does for the task, on every path of scrapeTask.      *)
(***************************************************************************)
C7_DoneExactlyOnce ==
    /\ \A t \in DOMAIN mem : doneCnt[t] <= 1
    /\ \A w \in Workers :
          busy(w) => /\ worker[w].task \in Range(delivered)
                     /\ doneCnt[worker[w].task] = 0
    /\ \A t \in Range(delivered) :
          \/ doneCnt[t] = 1
          \/ \E w \in Workers : busy(w) /\ worker[w].task = t
    /\ \A t \in DOMAIN mem : t \notin Range(delivered) => doneCnt[t] = 0

\* the seed task made an offer, failed and has been reported done; the task
\* it offered is being processed
C7_Witness ==
    /\ Len(initialURLs) = 1
    /\ logged
    /\ doneCnt = <<1, 0>>
    /\ \E w \in Workers : worker[w].pc = "rewrite" /\ worker[w].task = 2

(***************************************************************************)
(* C8: a worker whose task failed goes on to take the next task: a worker  *)
(* that has sent done is back in its loop, no worker leaves the loop while *)
(* out is open, and when Scrape returns every task has been processed.     *)
(***************************************************************************)
C8_WorkersSurviveErrors ==
    /\ [][\A w \in Workers :
             (worker[w].pc = "done" /\ worker'[w].pc # "done") => worker'[w].pc = "idle"]_vars
    /\ [](\A w \in Workers : worker[w].pc = "exited" => outClosed)
    /\ [](ScrapeReturned =>
             \A t \in DOMAIN mem : t \in Range(delivered) /\ doneCnt[t] = 1)

\* one task has ended, with an error that was logged; every worker, the one
\* that logged it too, has since taken a task, and another task is pending
C8_Witness ==
    /\ logged
    /\ doneSignals = 1
    /\ pending # <<>>
    /\ \A w \in Workers : worker[w].pc = "limiter"

(***************************************************************************)
(* The store: what the claims speak of                                     *)
(***************************************************************************)
\* the file at the final path of key k, NoFile if there is none
finalFile(k) ==
    IF dir[keyToFilename(k)] = Nil THEN NoFile ELSE files[dir[keyToFilename(k)]]

\* the JSON region of file F as its header delimits it
jsonRegion(F) == SubSeq(F.data, F.hdr[2] + 1, F.hdr[2] + F.hdr[4])

\* F is a completely sealed document of key k
Sealed(F, k) ==
    /\ F.live
    /\ F.hn = 5
    /\ F.hdr[1] = Magic
    /\ Len(F.data) = F.hdr[2] + F.hdr[4]
    /\ F.hdr[5] = ChecksumIEEE(jsonRegion(F))
    /\ Unmarshal(jsonRegion(F)).ok
    /\ Unmarshal(jsonRegion(F)).meta.Key = k

\* the writer is inside Close
closing(w) == dw[w].pc \in {"json", "seek", "header", "close", "rename"}

(***************************************************************************)
(* C9: at every moment of every interleaving of writers and the reader, a  *)
(* file at the final path of a key is a completely sealed document: magic  *)
(* STS1, all header fields written, the header's body size the number of   *)
(* body bytes its writer wrote, body and JSON regions filling the file,    *)
(* and the CRC32 that of the JSON region. Load(key) returns either the     *)
(* not-exist error or a document of a sealed file, never another error.    *)
(***************************************************************************)
C9_FinalFileSealed ==
    /\ \A k \in StoreKeys :
          dir[keyToFilename(k)] # Nil =>
             /\ Sealed(finalFile(k), k)
             /\ finalFile(k).hdr[2] = dw[dir[keyToFilename(k)]].bodyWrittenBytes
    /\ rd.pc = "idle" => rd.err \in {"pending", "notexist", "none"}
    /\ rd.err = "none" =>
          /\ Sealed(files[rd.doc.f], rd.key)
          /\ rd.doc.Metadata.Key = rd.key
          /\ rd.doc.BodySize = files[rd.doc.f].hdr[2]
          /\ rd.doc.BodySHA256 = files[rd.doc.f].hdr[3]

\* Load returned a document of a key while another writer is writing the
\* header of a document of the same key, after a short body write
C9_Witness ==
    /\ rd.pc = "idle" /\ rd.err = "none"
    /\ files[rd.doc.f].data # <<>>
    /\ \E w \in Writers :
          /\ dw[w].pc = "close"
          /\ dw[w].meta.Key = rd.key
          /\ dw[w].bodyWrittenBytes < Len(dw[w].hashed)

(***************************************************************************)
(* C10: when Close fails at a step before the rename (JSON marshal,        *)
(* metadata write, seek, header write, closing the file), the temp file is *)
(* removed, and the step neither creates nor changes a file at a final     *)
(* path.                                                                   *)
(***************************************************************************)
C10_FailedCloseLeavesNothing ==
    /\ [](\A w \in Writers :
             dw[w].pc = "failed"
                /\ dw[w].err \in {"marshal", "json", "seek", "header", "close"}
             => dir[tmpName(w)] = Nil)
    /\ [][\A w \in Writers :
             (dw[w].pc = "body" \/ closing(w)) /\ dw'[w].pc = "failed"
                /\ dw'[w].err # "rename"
             => \A k \in StoreKeys : finalFile(k)' = finalFile(k)]_vars

\* Close failed closing the file, after the header was written
C10_CloseFailedAtClose ==
    \E w \in Writers : dw[w].pc = "failed" /\ dw[w].err = "close"

\* every Write of writer w took all of its bytes and Close returned nil
storedWhole(w) ==
    dw[w].pc = "closed" /\ dw[w].bodyWrittenBytes = Len(dw[w].hashed)

documentOf(F, w) ==
    /\ dw[w].pc = "closed"
    /\ F.live /\ F.hn = 5
    /\ F.hdr = binaryHeader(dw[w])
    /\ Len(F.data) = dw[w].bodyWrittenBytes + Len(Marshal(dw[w].meta))
    /\ jsonRegion(F) = Marshal(dw[w].meta)
    /\ storedWhole(w) => SubSeq(F.data, 1, dw[w].bodyWrittenBytes) = dw[w].hashed

\* writer w's os.Rename succeeds in this step
renamed(w) == dw[w].pc = "rename" /\ dw'[w].pc = "closed"

(***************************************************************************)
(* C12: with writers storing under the same key concurrently, the file at  *)
(* the final path of a key is at each moment absent or the complete        *)
(* document of exactly one writer that closed with this key; a successful  *)
(* rename makes it the document of the renaming writer, replacing any      *)
(* other writer's, and no other step changes it: after both Closes it is   *)
(* the document of the writer that renamed last.                           *)
(***************************************************************************)
C12_LastWriterWins ==
    /\ [](\A k \in StoreKeys :
             \/ dir[keyToFilename(k)] = Nil
             \/ /\ dir[keyToFilename(k)] \in Writers
                /\ dw[dir[keyToFilename(k)]].meta.Key = k
                /\ documentOf(finalFile(k), dir[keyToFilename(k)]))
    /\ [][\A k \in StoreKeys :
             /\ \A w \in Writers :
                   (renamed(w) /\ dw[w].meta.Key = k) =>
                       /\ dir'[keyToFilename(k)] = w
                       /\ documentOf(finalFile(k), w)'
             /\ (\A w \in Writers : ~(renamed(w) /\ dw[w].meta.Key = k)) =>
                   /\ dir'[keyToFilename(k)] = dir[keyToFilename(k)]
                   /\ finalFile(k)' = finalFile(k)]_vars

\* both writers closed documents of different bodies under the same key; the
\* first writer's is the one at the final path
C12_Witness ==
    /\ dw[1].pc = "closed" /\ dw[2].pc = "closed"
    /\ dw[1].meta.Key = dw[2].meta.Key
    /\ dw[1].hashed = <<0, 1>> /\ dw[2].hashed = <<1>>
    /\ dir[keyToFilename(dw[1].meta.Key)] = 1
    /\ rd.err = "none" /\ rd.doc.f = 2

(***************************************************************************)
(* C13: List returns exactly the names of the directory that end in .bin   *)
(* and do not begin with tmp-; the temp file of a write in progress, of an *)
(* abandoned write or of a failed Close is never among them, and every     *)
(* entry is the final name of a key and refers to a sealed document of     *)
(* that key.                                                               *)
(***************************************************************************)
C13_ListOnlySealed ==
    /\ \A n \in Names :
          n \in RepositoryList <=>
             (dir[n] # Nil /\ n.suffix = ".bin" /\ n.prefix # "tmp-")
    /\ \A w \in Writers : tmpName(w) \notin RepositoryList
    /\ \A n \in RepositoryList :
          \E k \in StoreKeys :
             /\ n = keyToFilename(k)
             /\ Sealed(files[dir[n]], k)

\* List returns the one sealed document while the directory also holds the
\* temp file that the failed Close of the other writer left behind
C13_Witness ==
    /\ Cardinality(RepositoryList) = 1
    /\ \E w, v \in Writers :
          /\ dw[w].pc = "closed" /\ keyToFilename(dw[w].meta.Key) \in RepositoryList
          /\ dw[v].pc = "failed" /\ dir[tmpName(v)] = v

\* what makes a file no document: it ends inside the header, the magic is not
\* STS1, it ends before header + body + JSON, the CRC32 of the JSON region is
\* not the header's, or the JSON region does not decode
corrupt(F) ==
    \/ fileSize(F) < binaryHeaderSize
    \/ F.hdr[1] # Magic
    \/ fileSize(F) < binaryHeaderSize + F.hdr[2] + F.hdr[4]
    \/ ChecksumIEEE(jsonRegion(F)) # F.hdr[5]
    \/ ~Unmarshal(jsonRegion(F)).ok

(***************************************************************************)
(* C14: Load of a key whose file exists returns an error exactly when the  *)
(* file is shorter than the header or than header + body + JSON, the magic *)
(* is not STS1, the CRC32 of the JSON region differs from the header's or  *)
(* the JSON does not decode; with an error it returns no Document; no step *)
(* of Load changes the directory or a file; what a successful Load returns *)
(* is the header's body size and digest and the decoded JSON region,       *)
(* whatever the body region holds.                                         *)
(***************************************************************************)
C14_LoadFailsExactlyWhenCorrupt ==
    /\ [](rd.pc = "idle" /\ rd.err # "pending" /\ dir[keyToFilename(rd.key)] # Nil =>
             /\ (rd.err # "none") <=> corrupt(finalFile(rd.key))
             /\ rd.err # "none" => rd.doc = noDoc
             /\ rd.err = "none" =>
                   /\ rd.doc.Metadata = Unmarshal(jsonRegion(finalFile(rd.key))).meta
                   /\ rd.doc.BodySize = finalFile(rd.key).hdr[2]
                   /\ rd.doc.BodySHA256 = finalFile(rd.key).hdr[3])
    /\ [][rd' # rd => UNCHANGED <<dir, files>>]_vars

\* Load returned a document whose body is not the body of the header's digest
C14_Witness ==
    /\ rd.err = "none"
    /\ rd.doc.BodySize = 1
    /\ Body(rd.doc) = <<125>>
    /\ rd.doc.BodySHA256 = sha256(<<1>>)
    /\ sha256(Body(rd.doc)) # rd.doc.BodySHA256

(***************************************************************************)
(* The key: what the claims speak of                                       *)
(***************************************************************************)
\* C15: the key is idempotent: the key of the parsed key of a URL is that
\* key again, Key(parse(Key(u))) = Key(u), for every parsed URL u.
C15_KeyIdempotent == ret.n = 2 => ret.aa = ret.a

\* a URL that Key changes in host, port, path, query and fragment, and whose
\* key has an escaped value, has had Key applied twice
C15_Witness ==
    /\ ret.n = 2
    /\ arg.a.scheme = "HTTPS" /\ arg.a.name = "EXAMPLE.COM" /\ arg.a.port = "443"
    /\ arg.a.path = <<>> /\ arg.a.hasFragment
    /\ arg.a.query = << <<"utm_source", "hello">>, <<"b", "a%20b">> >>
    /\ ret.a = text("https", "example.com", <<FALSE, "">>, <<"/">>, TRUE,
                    << <<"b", "a+b">> >>, <<FALSE, "">>)
    /\ ret.aa = ret.a

\* the port of a URL text, an empty port and the default port of the scheme
\* taken for none
writtenPort(t) ==
    IF \/ ~t.hasPort
       \/ ToLower(t.scheme) = "http" /\ t.port = "80"
       \/ ToLower(t.scheme) = "https" /\ t.port = "443"
    THEN "" ELSE t.port

\* the pairs of a query text that carry the name n
pairsNamed(raw, n) == SelectSeq(raw, LAMBDA p : p[1] = n)

\* the two query texts have the same pairs but for the tracking parameters
\* and for the order of pairs of different names
sameParameters(x, y) ==
    \A n \in RawNames \ trackingParams : pairsNamed(x, n) = pairsNamed(y, n)

\* a question mark is in both texts or in neither, or it comes with
\* parameters where it is
sameQueryMark(x, y) ==
    \/ x.hasQuery = y.hasQuery
    \/ (x.hasQuery => x.query # <<>>) /\ (y.hasQuery => y.query # <<>>)

\* the two URL texts differ at most in the letter case of scheme and host, a
\* default or empty port, the fragment, the tracking parameters and the
\* order of parameters of different names
normalizedOnly(x, y) ==
    /\ ToLower(x.scheme) = ToLower(y.scheme)
    /\ ToLower(x.name) = ToLower(y.name)
    /\ writtenPort(x) = writtenPort(y)
    /\ x.path = y.path
    /\ sameQueryMark(x, y)
    /\ sameParameters(x.query, y.query)

\* C16: two URLs that differ only in the letter case of scheme or host, an
\* explicit default port or an empty port, the fragment, the presence or
\* values of tracking parameters, or the order of parameters of different
\* names have the same key.
C16_NormalizedSameKey ==
    (ret.n >= 1 /\ normalizedOnly(arg.a, arg.b)) => ret.a = ret.b

\* the same, for URLs none of which ends its text in a bare question mark
C16_SameKeyButBareMark ==
    (/\ ret.n >= 1 /\ normalizedOnly(arg.a, arg.b)
     /\ ~(arg.a.hasQuery /\ arg.a.query = <<>>)
     /\ ~(arg.b.hasQuery /\ arg.b.query = <<>>)) => ret.a = ret.b

\* Key has been applied to a URL with a bare question mark and to the same
\* URL with a tracking parameter after the mark
C16_BareMarkAgainstTracking ==
    /\ ret.n >= 1
    /\ arg.a.hasQuery /\ arg.a.query = <<>>
    /\ arg.b = [arg.a EXCEPT !.query = << <<"utm_source", "hello">> >>]
    /\ ret.a # ret.b

\* the decoded values of the parameter named n in a query text, in order
valuesNamed(raw, n) == valuesOf(raw, n)

\* the decoded names of the parameters of a query text
namesOf(raw) == {QueryUnescape(raw[i][1]) : i \in DOMAIN raw}

\* the two query texts differ in a parameter that is no tracking parameter:
\* in its presence, in the letter case of its name, in a value or in the
\* order of its values
differentParameters(x, y) ==
    \E n \in (namesOf(x) \cup namesOf(y)) \ trackingParams :
        valuesNamed(x, n) # valuesNamed(y, n)

\* the two URL texts differ in scheme, host, a port that is not the default,
\* or a parameter
differentBesidesPath(x, y) ==
    \/ ToLower(x.scheme) # ToLower(y.scheme)
    \/ ToLower(x.name) # ToLower(y.name)
    \/ writtenPort(x) # writtenPort(y)
    \/ differentParameters(x.query, y.query)

\* the path of a URL text, the empty path of an absolute URL with a host
\* taken for /
rootedPath(t) ==
    IF t.path = <<>> /\ t.scheme # "" /\ t.name # "" THEN <<"/">> ELSE t.path

\* C17: two URLs that differ in scheme, host, a non-default port, path, the
\* value of a parameter that is no tracking parameter, the order of the
\* values of one parameter or the letter case of a parameter name have
\* different keys.
C17_DifferentKeys ==
    (/\ ret.n >= 1
     /\ differentBesidesPath(arg.a, arg.b) \/ arg.a.path # arg.b.path) => ret.a # ret.b

\* C17, with the empty path of an absolute URL with a host taken for the
\* path /: two URLs that differ in scheme, host, a non-default port, path so
\* taken, the value of a parameter that is no tracking parameter, the order
\* of the values of one parameter or the letter case of a parameter name
\* have different keys.
C17_DifferentKeysRootedPath ==
    (/\ ret.n >= 1
     /\ differentBesidesPath(arg.a, arg.b) \/ rootedPath(arg.a) # rootedPath(arg.b))
        => ret.a # ret.b

\* Key has been applied to two absolute URLs of one host, one with the empty
\* path and one with another path than /
C17_Witness ==
    /\ ret.n >= 1
    /\ arg.a.scheme = "http" /\ arg.b.scheme = "http"
    /\ arg.a.name = "example.com" /\ arg.b.name = "example.com"
    /\ arg.a.path = <<>> /\ arg.b.path = <<"/", "a">>
    /\ ret.a.path = <<"/">> /\ ret.b.path = <<"/", "a">>
    /\ ret.a # ret.b

(***************************************************************************)
(* The rebase: what the claims speak of                                    *)
(***************************************************************************)
\* the three URLs of the call, as Rebase compares them
rebaseU == Canonical(Parse(arg.value))
rebaseOld == Canonical(arg.oldBase)
rebaseNew == Canonical(arg.newBase)

\* Rebase has been called
rebaseCalled == ret.n >= 1 /\ ret.r # notCalled

\* the URL is not under the old base
notUnderOldBase ==
    \/ rebaseU.Scheme # rebaseOld.Scheme
    \/ rebaseU.Host # rebaseOld.Host
    \/ endsWithSlash(rebaseOld.Path) /\ ~startsWith(rebaseU.Path, rebaseOld.Path)
    \/ ~endsWithSlash(rebaseOld.Path) /\ rebaseU.Path # rebaseOld.Path

\* the old base ends with a slash and the new one does not
newBaseLacksSlash == endsWithSlash(rebaseOld.Path) /\ ~endsWithSlash(rebaseNew.Path)

\* the rewriter gave what it gives with the mappings after the first
movedOn == ret.n = 2 => ret.w = urlRewriter(arg.value, <<nextMapping>>)

\* the rewriter returned the error of Rebase
aborted == ret.n = 2 => ret.w = notRewritten(ret.r.err)

\* C18: Rebase fails with ErrNoBase in every mismatch case: scheme or host of
\* the URL differ from the old base's, the old base's path ends with a slash
\* and the URL's path does not start with it, the old base's path ends with
\* a slash and the new base's does not, the old base's path does not end
\* with a slash and the URL's path is another; the rewriter then moves on to
\* the next mapping.
C18_MismatchIsErrNoBase ==
    (rebaseCalled /\ (notUnderOldBase \/ newBaseLacksSlash))
        => ret.r = ErrNoBase /\ movedOn

\* C18, with the case of the new base told apart: Rebase fails with
\* ErrNoBase when the URL is not under the old base, and the rewriter then
\* moves on to the next mapping; when the URL is under an old base whose path
\* ends with a slash and the new base's path does not, Rebase fails with
\* another error, and the rewriter returns that error.
C18_ErrNoBaseWhenNotUnderOldBase ==
    /\ (rebaseCalled /\ notUnderOldBase) => ret.r = ErrNoBase /\ movedOn
    /\ (rebaseCalled /\ IsAbs(Parse(arg.value)) /\ ~notUnderOldBase /\ newBaseLacksSlash)
           => ret.r = errNewBaseSlash /\ aborted

\* the rewriter has moved on from a first mapping under whose old base the
\* URL is not, and has rewritten the URL with the next mapping
C18_Witness ==
    /\ ret.n = 2
    /\ rebaseU.Scheme = rebaseOld.Scheme /\ rebaseU.Host = rebaseOld.Host
    /\ endsWithSlash(rebaseOld.Path) /\ ~startsWith(rebaseU.Path, rebaseOld.Path)
    /\ ret.r = ErrNoBase
    /\ ret.w.err = "none"
    /\ ret.w.value.path = <<"/", "n">> \o rebaseU.Path

\* C19: Rebase fails with ErrNoBase whenever the URL, the old base or the
\* new base is not absolute, and a result it returns without error is
\* absolute.
C19_AbsoluteOnly ==
    /\ (/\ rebaseCalled
        /\ ~IsAbs(Parse(arg.value)) \/ ~IsAbs(arg.oldBase) \/ ~IsAbs(arg.newBase))
           => ret.r = ErrNoBase
    /\ (rebaseCalled /\ ret.r.err = "none") => IsAbs(ret.r.u)

\* the same for the URL and the old base alone
C19_AbsoluteURLAndOldBase ==
    (rebaseCalled /\ (~IsAbs(Parse(arg.value)) \/ ~IsAbs(arg.oldBase)))
        => ret.r = ErrNoBase

\* Rebase has returned a URL without a scheme, for a new base without one
C19_RelativeResult ==
    /\ rebaseCalled
    /\ IsAbs(Parse(arg.value)) /\ IsAbs(arg.oldBase) /\ ~IsAbs(arg.newBase)
    /\ ret.r.err = "none"
    /\ ~IsAbs(ret.r.u)

(***************************************************************************)
(* The HTML rewriter: what the claims speak of                             *)
(***************************************************************************)
\* the bytes of a list of tokens
RECURSIVE rawBytes(_)
rawBytes(tokens) == IF tokens = <<>> THEN <<>> ELSE Head(tokens).rawData \o rawBytes(Tail(tokens))

\* the input of the call, byte for byte
inputBytes == rawBytes(arg.input.tokens) \o arg.input.tail

\* the input ends inside a start tag
endsInTag ==
    LET last == arg.input.tokens[Len(arg.input.tokens)]
    IN  last.tt \in {"StartTag", "Attribute"}

\* C20: with a callback that always returns ErrNotModified, HTML5 returns
\* nil and its output is the input, byte for byte, for every input.
C20_NotModifiedIsIdentity ==
    (ret.n = 1 /\ arg.urlRewriter = "ErrNotModified")
        => ret.err = "nil" /\ ret.lc.w = inputBytes

\* the same, for the inputs that do not end inside a start tag
C20_IdentityOfWholeTags ==
    (ret.n = 1 /\ arg.urlRewriter = "ErrNotModified" /\ ~endsInTag)
        => ret.err = "nil" /\ ret.lc.w = inputBytes

\* HTML5 has returned io.EOF for an input that ends inside a meta tag, and
\* has not written the attributes of the tag
C20_CutMetaTag ==
    /\ ret.n = 1 /\ arg.urlRewriter = "ErrNotModified"
    /\ arg.input.tokens[2].text = "meta" /\ Len(arg.input.tokens) = 4
    /\ endsInTag /\ arg.input.tail = <<>>
    /\ ret.err = "EOF"
    /\ ret.lc.w = <<"1", "<", "meta">>

(***************************************************************************)
(* The rewriters of pages and style sheets: what the claims speak of       *)
(***************************************************************************)
\* the document of the call is a style sheet, a page
isStyle == arg.mediaType = "text/css"
isPage == arg.mediaType = "text/html"

\* the bytes of a style sheet
styleBytes == concat([i \in 1..Len(arg.input.tokens) |-> arg.input.tokens[i].text])

\* the token at place i of the document has the type tt, "none" past its end
typeAt(i) == IF i \in 1..Len(arg.input.tokens) THEN arg.input.tokens[i].tt ELSE "none"

\* token i of the style sheet is @import in any case of letters
importAt(i) == typeAt(i) = "AtKeyword" /\ isImport(arg.input.tokens[i].text)

\* every @import is followed by white space and a string or a URL
importsWithArgument ==
    \A i \in 1..Len(arg.input.tokens) :
        importAt(i) => typeAt(i + 1) = "Whitespace" /\ typeAt(i + 2) \in {"String", "URL"}

\* C21: with a callback that always returns ErrNotModified, CSS returns nil
\* and its output is the input, byte for byte, for every input, @import
\* followed by any token included.
C21_NotModifiedIsIdentityCSS ==
    (ret.n = 1 /\ isStyle /\ arg.urlRewriter = "ErrNotModified")
        => ret.err = "nil" /\ ret.lc.w = styleBytes

\* the same, for the style sheets in which every @import has its argument
C21_IdentityOfImportsWithArgument ==
    (ret.n = 1 /\ isStyle /\ arg.urlRewriter = "ErrNotModified" /\ importsWithArgument)
        => ret.err = "nil" /\ ret.lc.w = styleBytes

\* CSS has returned nil for @import;url(a.png) and has written @import only
C21_CutAfterImport ==
    /\ ret.n = 1 /\ isStyle /\ arg.urlRewriter = "ErrNotModified"
    /\ arg.input.tokens = <<importToken, styleToken("Semicolon", <<";">>),
                            styleToken("URL", <<"url(", "a.png", ")">>)>>
    /\ ret.err = "nil"
    /\ ret.lc.w = <<"@import">>

\* the calls of the callback, in order, and the places of those for a base
calls == ret.lc.calls
baseCallAt == {i \in DOMAIN calls : calls[i].Type = "URLTypeBase"}
firstBaseCall == CHOOSE i \in baseCallAt : \A j \in baseCallAt : i <= j

\* what the callback of the call returns for call i
resultAt(i) == callback(arg.urlRewriter, calls[i])

\* C22: only the first <base href> of a page has effect: the callback is
\* invoked for no later base tag, and the base and the new base stay what
\* the first one made them.
C22_OnlyFirstBaseHasEffect ==
    (ret.n = 1 /\ isPage /\ baseCallAt # {})
        => /\ Cardinality(baseCallAt) = 1
           /\ ret.lc.baseURL = calls[firstBaseCall].Value
           /\ resultAt(firstBaseCall).err = "nil"
                  => ret.lc.newBaseURL = resultAt(firstBaseCall).value
           /\ resultAt(firstBaseCall).err = "ErrNotModified"
                  => ret.lc.newBaseURL = calls[firstBaseCall].Value

\* HTML5 has rewritten <base href="http://a/"><base href="http://b/">: the
\* callback was invoked for both, and the base is the second
C22_SecondBaseTakesOver ==
    /\ ret.n = 1 /\ isPage /\ arg.urlRewriter = "moves a"
    /\ arg.input.tokens = startTag("base", <<doubleQuoted("href", <<"http://a/">>)>>)
                              \o startTag("base", <<doubleQuoted("href", <<"http://b/">>)>>)
    /\ ret.err = "nil"
    /\ Len(calls) = 2 /\ baseCallAt = {1, 2}
    /\ ret.lc.baseURL = <<"http://b/">>
    /\ ret.lc.newBaseURL = <<"http://b/">>
    /\ ret.lc.w = <<"<", "base", " ", "href", "=", "\"", "new/", "http://a/", "\"", ">",
                    "<", "base", " ", "href", "=", "\"", "http://b/", "\"", ">">>

\* the new base a base call leaves: what the callback returned, or the
\* value itself when it returned ErrNotModified
newBaseOf(j) == IF resultAt(j).err = "nil" THEN resultAt(j).value ELSE calls[j].Value

\* the last call for a base before call i
lastBaseBefore(i) ==
    CHOOSE j \in baseCallAt : j < i /\ \A k \in baseCallAt : k < i => k <= j

\* call i has the base and new base that base call j has left, or none
basedOn(i, j) == calls[i].Base = calls[j].Value /\ calls[i].NewBase = newBaseOf(j)
unbased(i) == calls[i].Base = <<>> /\ calls[i].NewBase = <<>>

\* the calls for single URLs, URL lists, srcset and refresh
plainCallAt == {i \in DOMAIN calls : calls[i].Type = "URLTypeUnknown"}

\* the page begins with <base href=...>
beginsWithBase ==
    /\ Len(arg.input.tokens) >= 2
    /\ arg.input.tokens[1].text = "base"
    /\ arg.input.tokens[2].tt = "Attribute" /\ arg.input.tokens[2].text = "href"

\* C23: after the first <base href=B> every later callback for a single
\* URL, a URL list, srcset or refresh receives Base = B and NewBase = what
\* the callback returned for B, or B when it returned ErrNotModified; before
\* any base both are empty; the callback for the base itself has Type=Base.
C23_BaseOfFirstBaseTag ==
    (ret.n = 1 /\ isPage)
        => /\ \A i \in plainCallAt :
                IF \E j \in baseCallAt : j < i THEN basedOn(i, firstBaseCall) ELSE unbased(i)
           /\ beginsWithBase
                  => /\ calls[1].Type = "URLTypeBase"
                     /\ calls[1].Value = cleanValue(arg.input.tokens[2]).value

\* the same, with the last base tag before the URL instead of the first
C23_BaseOfLastBaseTag ==
    (ret.n = 1 /\ isPage)
        => /\ \A i \in plainCallAt :
                IF \E j \in baseCallAt : j < i THEN basedOn(i, lastBaseBefore(i))
                ELSE unbased(i)
           /\ \A i \in baseCallAt : unbased(i)
           /\ beginsWithBase
                  => /\ calls[1].Type = "URLTypeBase"
                     /\ calls[1].Value = cleanValue(arg.input.tokens[2]).value

\* HTML5 has rewritten <base href="http://a/"><base href="http://b/"> and
\* <a href="a.html">: the callback for a.html has received the second base
C23_SecondBaseReceived ==
    /\ ret.n = 1 /\ isPage /\ arg.urlRewriter = "moves a"
    /\ arg.input.tokens = startTag("base", <<doubleQuoted("href", <<"http://a/">>)>>)
                              \o startTag("base", <<doubleQuoted("href", <<"http://b/">>)>>)
                              \o startTag("a", <<doubleQuoted("href", <<"a.html">>)>>)
    /\ ret.err = "nil"
    /\ calls[3] = urlInfo(<<"a.html">>, <<"http://b/">>, <<"http://b/">>, "URLTypeUnknown")

\* the page begins with a tag whose first attribute is a URL list: archive
\* of object, separated by spaces, or of applet, separated by commas
listTag == arg.input.tokens[1].text
listAttribute == arg.input.tokens[2]
beginsWithList ==
    /\ Len(arg.input.tokens) >= 2
    /\ listTag \in {"object", "applet"}
    /\ listAttribute.tt = "Attribute" /\ listAttribute.text = "archive"
listSeparator == IF listTag = "object" THEN " " ELSE ","

\* the elements of the list and what the callback returns for each
elements == Split(cleanValue(listAttribute).value, listSeparator)
elementResult(i) ==
    callback(arg.urlRewriter, urlInfo(elements[i], <<>>, <<>>, "URLTypeUnknown"))
isError(r) == r.err \notin {"nil", "ErrNotModified"}
failingElements == {i \in DOMAIN elements : isError(elementResult(i))}
firstFailing == CHOOSE i \in failingElements : \A j \in failingElements : i <= j

\* the elements up to n with the modified ones replaced, joined by the
\* separator
RECURSIVE joined(_)
joined(n) ==
    IF n = 0 THEN <<>>
    ELSE (IF n = 1 THEN <<>> ELSE joined(n - 1) \o <<listSeparator>>)
             \o (IF elementResult(n).err = "nil" THEN elementResult(n).value
                 ELSE elements[n])

\* the output begins with the tag and then these bytes
tagWritten(bytes) ==
    /\ Len(ret.lc.w) >= 2 + Len(bytes)
    /\ SubSeq(ret.lc.w, 1, 2 + Len(bytes)) = <<"<", listTag>> \o bytes

\* C24: for a URL list the callback is invoked once for each element, in
\* order; when it returns ErrNotModified for all of them the attribute is
\* copied as it is; otherwise the attribute is the elements joined by the
\* separator, the modified ones replaced and the others as they were; any
\* other error of the callback is returned, and ends the calls.
C24_URLListByElement ==
    (ret.n = 1 /\ isPage /\ beginsWithList)
        => IF failingElements # {}
           THEN /\ ret.err = elementResult(firstFailing).err
                /\ calls = [i \in 1..firstFailing |->
                               urlInfo(elements[i], <<>>, <<>>, "URLTypeUnknown")]
           ELSE /\ Len(calls) >= Len(elements)
                /\ \A i \in DOMAIN elements :
                       calls[i] = urlInfo(elements[i], <<>>, <<>>, "URLTypeUnknown")
                /\ IF \A i \in DOMAIN elements : elementResult(i).err = "ErrNotModified"
                   THEN tagWritten(listAttribute.rawData)
                   ELSE tagWritten(<<" ", "archive", "=", "\"">>
                                       \o EscapeString(joined(Len(elements))) \o <<"\"">>)

\* HTML5 has rewritten <object archive="a.jar b.jar"> with a callback that
\* modifies b.jar only
C24_Witness ==
    /\ ret.n = 1 /\ isPage /\ beginsWithList /\ arg.urlRewriter = "moves b"
    /\ listTag = "object" /\ Len(arg.input.tokens) = 3
    /\ elements = << <<"a.jar">>, <<"b.jar">> >>
    /\ Len(calls) = 2
    /\ ret.lc.w = <<"<", "object", " ", "archive", "=", "\"", "a.jar", " ", "new/", "b.jar",
                    "\"", ">">>

\* the page begins with <img srcset=...>
srcSet == arg.input.tokens[2]
beginsWithSrcSet ==
    /\ Len(arg.input.tokens) >= 2
    /\ arg.input.tokens[1].text = "img"
    /\ srcSet.tt = "Attribute" /\ srcSet.text = "srcset"

\* the elements of the srcset, the URL and the descriptor of each, and what
\* the callback returns for the URL
candidates == Split(cleanValue(srcSet).value, ",")
candidateURL(i) == SplitN2(TrimSpace(candidates[i]))[1]
descriptor(i) ==
    IF Len(SplitN2(TrimSpace(candidates[i]))) > 1
    THEN <<" ">> \o TrimSpace(SplitN2(TrimSpace(candidates[i]))[2])
    ELSE <<>>
candidateResult(i) ==
    callback(arg.urlRewriter, urlInfo(candidateURL(i), <<>>, <<>>, "URLTypeUnknown"))

\* element i as the output has it: trimmed, or as it was written when the
\* callback left it (kept = TRUE)
candidateWritten(i, kept) ==
    IF candidateResult(i).err = "nil" THEN candidateResult(i).value \o descriptor(i)
    ELSE IF kept THEN candidates[i]
    ELSE candidateURL(i) \o descriptor(i)

\* the elements up to n, joined by a comma and a space
RECURSIVE srcSetJoined(_, _)
srcSetJoined(n, kept) ==
    IF n = 0 THEN <<>>
    ELSE (IF n = 1 THEN <<>> ELSE srcSetJoined(n - 1, kept) \o <<",", " ">>)
             \o candidateWritten(n, kept)

\* the output begins with <img and then these bytes
imgWritten(bytes) ==
    /\ Len(ret.lc.w) >= 2 + Len(bytes)
    /\ SubSeq(ret.lc.w, 1, 2 + Len(bytes)) = <<"<", "img">> \o bytes

someModified == \E i \in DOMAIN candidates : candidateResult(i).err = "nil"
noneFails == \A i \in DOMAIN candidates : ~isError(candidateResult(i))

\* C25: a srcset of which an element is rewritten is written as its
\* elements, each the URL, rewritten or not, and the descriptor without the
\* white space around them, joined by a comma and one space, whichever
\* elements the callback left; when it left all of them the attribute is
\* copied as it is.
C25_SrcSetTrimmedAndJoined ==
    (ret.n = 1 /\ isPage /\ beginsWithSrcSet /\ noneFails)
        => IF someModified
           THEN imgWritten(<<" ", "srcset", "=", "\"">>
                               \o EscapeString(srcSetJoined(Len(candidates), FALSE))
                               \o <<"\"">>)
           ELSE imgWritten(srcSet.rawData)

\* the same, with the elements the callback left written with the white
\* space they had
C25_UnmodifiedKeptAsWritten ==
    (ret.n = 1 /\ isPage /\ beginsWithSrcSet /\ noneFails)
        => IF someModified
           THEN imgWritten(<<" ", "srcset", "=", "\"">>
                               \o EscapeString(srcSetJoined(Len(candidates), TRUE))
                               \o <<"\"">>)
           ELSE imgWritten(srcSet.rawData)

\* HTML5 has rewritten <img srcset="a.png 1x, b.png"> with a callback that
\* modifies a.png only: two spaces follow the comma
C25_TwoSpaces ==
    /\ ret.n = 1 /\ isPage /\ beginsWithSrcSet /\ arg.urlRewriter = "moves a"
    /\ Len(arg.input.tokens) = 3
    /\ ret.err = "nil"
    /\ ret.lc.w = <<"<", "img", " ", "srcset", "=", "\"", "new/", "a.png", " ", "1x", ",",
                    " ", " ", "b.png", "\"", ">">>

\* the page is one meta tag; its attributes
oneMeta ==
    /\ Len(arg.input.tokens) >= 2
    /\ arg.input.tokens[1].text = "meta"
    /\ \A i \in 2..Len(arg.input.tokens) : arg.input.tokens[i].tt # "StartTag"
metaAttributes == SubSeq(arg.input.tokens, 2, Len(arg.input.tokens) - 1)

\* the tag has an attribute of this name, and one of this name and value
hasAttribute(name) == \E i \in DOMAIN metaAttributes : metaAttributes[i].text = name
hasAttributeValue(name, val) ==
    \E i \in DOMAIN metaAttributes :
        metaAttributes[i].text = name /\ cleanValue(metaAttributes[i]).value = val

\* the content attribute at place i as the refresh handler leaves it
refreshResult(i) ==
    callback(arg.urlRewriter,
             urlInfo(refreshMatch(cleanValue(metaAttributes[i]).value).m2, <<>>, <<>>,
                     "URLTypeUnknown"))
contentRefreshed(i) ==
    IF refreshResult(i).err = "nil"
    THEN <<" ", "content", "=", "\"">>
             \o EscapeString(refreshMatch(cleanValue(metaAttributes[i]).value).m1
                                 \o <<";url=">> \o refreshResult(i).value)
             \o <<"\"">>
    ELSE metaAttributes[i].rawData

\* the tag with its content attributes refreshed and the others as they are
metaRefreshed ==
    <<"<", "meta">>
        \o concat([i \in DOMAIN metaAttributes |->
                      IF metaAttributes[i].text = "content" THEN contentRefreshed(i)
                      ELSE metaAttributes[i].rawData])
        \o <<">">>

noRefreshFails ==
    \A i \in DOMAIN metaAttributes :
        metaAttributes[i].text = "content" => ~isError(refreshResult(i))

\* in a meta tag without property and itemprop: when refresh holds the
\* content attributes go through the refresh handler, and the other
\* attributes keep their bytes and their order; when it does not, the
\* callback is not invoked and the tag is written as it is
refreshOnlyWhen(refresh) ==
    (ret.n = 1 /\ isPage /\ oneMeta /\ ~hasAttribute("property") /\ ~hasAttribute("itemprop"))
        => IF ~refresh THEN calls = <<>> /\ ret.err = "nil" /\ ret.lc.w = inputBytes
           ELSE noRefreshFails => ret.err = "nil" /\ ret.lc.w = metaRefreshed

\* C26: the refresh handler is applied to the content attribute of a meta
\* tag only when the tag has http-equiv=refresh; for http-equiv of another
\* value, and for every other meta that does not match, the callback is not
\* invoked and the tag is written as it is; in a matching meta only the
\* content attribute changes.
C26_RefreshOnlyForRefresh == refreshOnlyWhen(hasAttributeValue("http-equiv", <<"refresh">>))

\* the same, for a tag that has http-equiv of any value
C26_RefreshForAnyHTTPEquiv == refreshOnlyWhen(hasAttribute("http-equiv"))

\* HTML5 has rewritten <meta http-equiv="content-type" content="5;url=b.html">
C26_ContentTypeRefreshed ==
    /\ ret.n = 1 /\ isPage /\ oneMeta /\ arg.urlRewriter = "moves b"
    /\ metaAttributes = <<doubleQuoted("http-equiv", <<"content-type">>),
                          doubleQuoted("content", <<"5", ";url=", "b.html">>)>>
    /\ calls = <<urlInfo(<<"b.html">>, <<>>, <<>>, "URLTypeUnknown")>>
    /\ ret.lc.w = <<"<", "meta", " ", "http-equiv", "=", "\"", "content-type", "\"",
                    " ", "content", "=", "\"", "5", ";url=", "new/", "b.html", "\"", ">">>

\* the page is one tag of the attribute table; its attributes
oneTableTag ==
    /\ Len(arg.input.tokens) >= 2
    /\ arg.input.tokens[1].text = "a"
    /\ \A i \in 2..Len(arg.input.tokens) : arg.input.tokens[i].tt # "StartTag"
tagAttributes == SubSeq(arg.input.tokens, 2, Len(arg.input.tokens) - 1)

\* attribute i of the tag is in the table; all before it are
inTable(i) == findHandler("a", tagAttributes[i].text) # "nil"
afterTableOnly(i) == \A j \in 1..(i - 1) : inTable(j)

\* what the callback returns for the URL of attribute i
hrefURL(i) == urlInfo(cleanValue(tagAttributes[i]).value, <<>>, <<>>, "URLTypeUnknown")
hrefResult(i) == callback(arg.urlRewriter, hrefURL(i))

\* the URLs of the attributes from i on that are in the table and among
\* passed, in order
RECURSIVE urlsFrom(_, _)
urlsFrom(i, passed) ==
    IF i > Len(tagAttributes) THEN <<>>
    ELSE (IF i \in passed THEN <<hrefURL(i)>> ELSE <<>>) \o urlsFrom(i + 1, passed)

\* the tag with the attributes among passed rewritten when the callback
\* returns a value, and the others as they are
tagRewritten(passed) ==
    <<"<", "a">>
        \o concat([i \in DOMAIN tagAttributes |->
                      IF i \in passed /\ hrefResult(i).err = "nil"
                      THEN <<" ", tagAttributes[i].text, "=", "\"">>
                               \o EscapeString(hrefResult(i).value) \o <<"\"">>
                      ELSE tagAttributes[i].rawData])
        \o <<">">>

noHrefFails == \A i \in DOMAIN tagAttributes : inTable(i) => ~isError(hrefResult(i))

\* the attributes among passed, and no others, are passed to the callback
\* and rewritten
passedAndRewritten(passed) ==
    (ret.n = 1 /\ isPage /\ oneTableTag /\ noHrefFails)
        => /\ ret.err = "nil"
           /\ calls = urlsFrom(1, passed)
           /\ ret.lc.w = tagRewritten(passed)

\* C27: every attribute of a start tag that is in the attribute table is
\* passed to the callback and, when the callback returns a value,
\* rewritten, however many attributes without a handler precede it.
C27_EveryTableAttribute ==
    passedAndRewritten({i \in DOMAIN tagAttributes : inTable(i)})

\* the same, for the attributes that no attribute without a handler precedes
C27_TableAttributesInFront ==
    passedAndRewritten({i \in DOMAIN tagAttributes : inTable(i) /\ afterTableOnly(i)})

\* HTML5 has copied <a class="x" href="a.html"> with a callback that
\* replaces every URL, and has not invoked it
C27_HrefBehindClass ==
    /\ ret.n = 1 /\ isPage /\ oneTableTag /\ arg.urlRewriter = "REPLACED"
    /\ tagAttributes = <<doubleQuoted("class", <<"x">>), doubleQuoted("href", <<"a.html">>)>>
    /\ ret.err = "nil"
    /\ calls = <<>>
    /\ ret.lc.w = inputBytes

\* C28: when the callback returns an error other than ErrNotModified for a
\* URL, HTML5 and CSS return that error and invoke the callback for no
\* later URL of the document; ErrNotModified is never what they return.
C28_ErrorEndsDocument ==
    ret.n = 1
        => /\ ret.err # "ErrNotModified"
           /\ \A i \in DOMAIN calls :
                  isError(resultAt(i)) => i = Len(calls) /\ ret.err = resultAt(i).err

\* HTML5 has returned the error of the callback for b.jar, the second
\* element of a list, and has not invoked it for the link that follows
C28_Witness ==
    /\ ret.n = 1 /\ isPage /\ arg.urlRewriter = "fails on b"
    /\ arg.input.tokens = startTag("object", <<doubleQuoted("archive", <<"a.jar", " ", "b.jar">>)>>)
                              \o startTag("a", <<doubleQuoted("href", <<"a.html">>)>>)
    /\ ret.err = "failure"
    /\ Len(calls) = 2 /\ calls[2].Value = <<"b.jar">>
    /\ ret.lc.w = <<"<", "object">>

\* CSS has returned the error of the callback for the URL of an @import,
\* and has not invoked it for the URL that follows
C28_WitnessCSS ==
    /\ ret.n = 1 /\ isStyle /\ arg.urlRewriter = "fails on b"
    /\ arg.input.tokens = <<importToken, spaceToken,
                            styleToken("String", <<"'", "b.css", "\\22 ", "'">>),
                            styleToken("Semicolon", <<";">>),
                            styleToken("URL", <<"url(", "a.png", ")">>)>>
    /\ ret.err = "failure"
    /\ calls = <<cssURL(<<"b.css", "\"">>)>>
    /\ ret.lc.w = <<"@import", " ">>

\* the style sheet begins with @import and, after white space or, when
\* spaced is FALSE, also without it, a string or a URL
argumentAt == IF typeAt(2) = "Whitespace" THEN 3 ELSE 2
argument == arg.input.tokens[argumentAt]
beginsWithImport(spaced) ==
    /\ importAt(1)
    /\ typeAt(argumentAt) \in {"String", "URL"}
    /\ spaced => argumentAt = 3

\* the URL in a URL token
urlOf(token) ==
    IF isQuote(token[urlStartIndex(token, 2)])
    THEN cssUnescapeString(SubSeq(token, urlStartIndex(token, 2), Len(token))).value
    ELSE SubSeq(token, urlStartIndex(token, 2),
                urlEndIndex(token, urlStartIndex(token, 2), Len(token)) - 1)

\* the argument of the @import, what the callback returns for it, and the
\* argument as it is written then
argumentValue ==
    IF argument.tt = "String" THEN cssUnescapeString(argument.text).value
    ELSE urlOf(argument.text)
argumentResult == callback(arg.urlRewriter, cssURL(argumentValue))
argumentWritten ==
    IF argumentResult.err # "nil" THEN argument.text
    ELSE IF argument.tt = "String" THEN cssEscapeString(argumentResult.value)
    ELSE handleURLToken(newCSSRewriter(<<>>, arg.urlRewriter), argument.text).lc.w

\* the bytes of the tokens from place i to place j
bytesBetween(i, j) == concat([k \in 1..(j - i + 1) |-> arg.input.tokens[k + i - 1].text])

\* the output up to the argument, and the tokens after the argument when
\* there is no URL and no @import among them
importWritten == bytesBetween(1, argumentAt - 1) \o argumentWritten
plainAfterArgument ==
    \A i \in (argumentAt + 1)..Len(arg.input.tokens) : typeAt(i) # "URL" /\ ~importAt(i)

\* the argument of the @import is passed to the callback with Type=CSS and
\* replaced when the callback returns a value; @import, the white space and
\* the tokens that follow are copied
importArgumentRewritten(spaced) ==
    (ret.n = 1 /\ isStyle /\ beginsWithImport(spaced) /\ ~isError(argumentResult))
        => /\ calls # <<>>
           /\ calls[1] = cssURL(argumentValue)
           /\ Len(ret.lc.w) >= Len(importWritten)
           /\ SubSeq(ret.lc.w, 1, Len(importWritten)) = importWritten
           /\ plainAfterArgument
                  => /\ ret.err = "nil"
                     /\ ret.lc.w = importWritten
                                       \o bytesBetween(argumentAt + 1, Len(arg.input.tokens))

\* another at-keyword in front is passed through
otherAtKeywordCopied ==
    (ret.n = 1 /\ isStyle /\ typeAt(1) = "AtKeyword" /\ ~importAt(1))
        => ret.lc.w # <<>> /\ ret.lc.w[1] = arg.input.tokens[1].text[1]

\* C29: the string or URL that follows @import, with or without white
\* space in between, is passed to the callback with Type=CSS and replaced
\* when the callback returns a value, and @import, the white space and the
\* tokens that follow are copied; other at-keywords are passed through.
C29_ImportArgumentRewritten == importArgumentRewritten(FALSE) /\ otherAtKeywordCopied

\* the same, for the arguments that follow @import and white space
C29_ImportAfterSpaceRewritten == importArgumentRewritten(TRUE) /\ otherAtKeywordCopied

\* CSS has returned nil for @import"a.css"; with a callback that replaces
\* every URL: it has not invoked it and has written @import only
C29_StringRightAfterImport ==
    /\ ret.n = 1 /\ isStyle /\ arg.urlRewriter = "REPLACED"
    /\ arg.input.tokens = <<importToken, styleToken("String", <<"\"", "a.css", "\"">>),
                            styleToken("Semicolon", <<";">>)>>
    /\ ret.err = "nil"
    /\ calls = <<>>
    /\ ret.lc.w = <<"@import">>

(***************************************************************************)
(* The redirects of one fetch: what the claim speaks of                    *)
(***************************************************************************)
\* the URL of the i-th request of the fetch
RECURSIVE requestURL(_)
requestURL(i) == IF i = 1 THEN arg.downloadURL ELSE Location(requestURL(i - 1))

\* the keys of the first n request URLs, in the order of the chain
chainKeys(n) == [i \in 1..n |-> Key(Parse(requestURL(i)))]

isFetch == "downloadURL" \in DOMAIN arg

\* the redirects followed so far: every request but the first follows one
redirectsFollowed == Len(ret.via) - 1

cutOff == ret.err = "stopped after 10 redirects"

\* every response stored so far is stored under the key of the URL of its
\* request, in the order of the chain, and no request is sent before the
\* response to the request before it is stored
storedInChainOrder ==
    /\ ret.log = chainKeys(Len(ret.log))
    /\ ret.pc = "client.Do" => Len(ret.log) = Len(ret.via)
    /\ ret.pc = "processResponse" => Len(ret.log) = arg.redirects

\* scrapeTask returns nil only when the final response is stored after all
\* the redirect responses, and the task is marked done after the return
doneAfterFinal ==
    /\ ret.done <=> ret.pc = "returned"
    /\ (ret.done /\ ret.err = "nil") => ret.log = chainKeys(arg.redirects + 1)

\* with the CheckRedirect of the client nil, the fetch follows at most n
\* redirects: the redirect response after them ends it
cutOffAfter(n) ==
    arg.CheckRedirect = "nil" =>
        /\ redirectsFollowed <= n
        /\ cutOff => redirectsFollowed = n /\ arg.redirects > n
        /\ (ret.pc = "returned" /\ ret.err = "nil") => arg.redirects <= n

\* C30, as stated: for a task whose fetch passes through redirects, each
\* redirect response is processed and stored under the key of the request
\* URL it answered, in chain order and before the final response; the final
\* response is then processed too; only after that is the task marked done;
\* with no CheckRedirect override on the client the chain is cut off once 10
\* redirects have been followed
C30_CutOffAfterTenFollowed ==
    isFetch => storedInChainOrder /\ doneAfterFinal /\ cutOffAfter(RedirectLimit)

\* C30, amended: the same, but the chain is cut off when the tenth redirect
\* response arrives, that is once 9 redirects have been followed and 10
\* requests sent: the tenth redirect response is stored like the others, no
\* final response is processed, and the task is marked done with the error
C30_CutOffAtTenthRedirect ==
    isFetch =>
        /\ storedInChainOrder /\ doneAfterFinal /\ cutOffAfter(RedirectLimit - 1)
        /\ cutOff => /\ Len(ret.via) = RedirectLimit
                     /\ ret.log = chainKeys(RedirectLimit)
                     /\ ret.pc \in {"deferred", "returned"}

\* a fetch of a chain of 10 redirects has returned: 10 requests were sent,
\* the 10 redirect responses are stored and the task is marked done
C30_TenthRedirectEndsFetch ==
    /\ isFetch /\ arg.CheckRedirect = "nil" /\ arg.redirects = RedirectLimit
    /\ ret.pc = "returned" /\ ret.done /\ cutOff
    /\ redirectsFollowed = RedirectLimit - 1
    /\ Len(ret.log) = RedirectLimit

\* a fetch through three redirects has returned nil: four responses are
\* stored, the first two under the same key, and the task is marked done
C30_ThreeRedirectsFetched ==
    /\ isFetch /\ arg.redirects = 3 /\ arg.downloadURL = ChainURLs[1]
    /\ ret.pc = "returned" /\ ret.done /\ ret.err = "nil"
    /\ Len(ret.log) = 4 /\ ret.log[1] = ret.log[2] /\ ret.log[2] # ret.log[3]

(***************************************************************************)
(* C35: at every moment of a crawl the number of tasks delivered on out    *)
(* and not yet reported on doneTasks is at most workerCount.               *)
(***************************************************************************)
C35_OutstandingAtMostWorkers ==
    /\ Len(delivered) - doneSignals <= WorkerCount
    /\ Cardinality(outstanding) = Len(delivered) - doneSignals

\* every worker holds a task that is not reported yet, and a task that the
\* queue cannot deliver is pending
C35_Witness ==
    /\ Cardinality(outstanding) = WorkerCount
    /\ Len(delivered) - doneSignals = WorkerCount
    /\ \A w \in Workers : busy(w)
    /\ pending # <<>>
    /\ qpc = "loop"

(***************************************************************************)
(* C36: the queue and the workers do not deadlock. A worker that sends a   *)
(* discovered task on inTasks, or its finished task on doneTasks, finds    *)
(* the queue in its loop, whose select receives on both channels whether   *)
(* or not a task is pending; under weak fairness the send is eventually    *)
(* received (no worker stays in the same send for ever), even when every   *)
(* worker is sending at the same moment and tasks are pending.             *)
(***************************************************************************)
\* worker w is in its callback with n references left, or sends on doneTasks
offering(w, n) == worker[w].pc = "rewrite" /\ Len(worker[w].rest) = n
reporting(w) == worker[w].pc = "done"

\* the queue can receive what worker w sends
receivable(w) ==
    /\ reporting(w) => ENABLED QueueRecvDone(w)
    /\ (worker[w].pc = "rewrite" /\ worker[w].rest # <<>>) =>
          \A u \in reference(worker[w]) : FollowURL(u) => ENABLED Offer(w, u)

C36_SendsAreReceived ==
    /\ [](\A w \in Workers : receivable(w))
    /\ \A w \in Workers : []<>~reporting(w)
    /\ \A w \in Workers, n \in 1..MaxLinks : []<>~offering(w, n)

\* every worker is in its callback with a reference to offer, and a task is
\* pending
C36_EveryWorkerOffers ==
    /\ \A w \in Workers : worker[w].pc = "rewrite" /\ worker[w].rest # <<>>
    /\ pending # <<>>
    /\ qpc = "loop"

\* every worker sends on doneTasks, and a task is pending
C36_EveryWorkerReports ==
    /\ \A w \in Workers : reporting(w)
    /\ pending # <<>>
    /\ qpc = "loop"

(***************************************************************************)
(* C37: during one run of the queue no key is delivered on out more than   *)
(* once; this includes the key of an initial task that a worker offers     *)
(* again later.                                                            *)
(***************************************************************************)
deliveredKeys == [i \in DOMAIN delivered |-> mem[delivered[i]].key]

C37_NoKeyDeliveredTwice ==
    \A i, j \in DOMAIN deliveredKeys : i # j => deliveredKeys[i] # deliveredKeys[j]

\* the same, of the tasks offered by workers only: no two of them that are
\* delivered have the same key
C37_NoOfferedKeyDeliveredTwice ==
    \A i, j \in DOMAIN deliveredKeys :
        (i # j /\ delivered[i] > Len(initialURLs) /\ delivered[j] > Len(initialURLs)) =>
            deliveredKeys[i] # deliveredKeys[j]

\* the task of the only initial URL was delivered, a worker offered its key
\* again, the queue accepted the offer and delivered the key a second time
C37_StartURLDeliveredAgain ==
    /\ Len(initialURLs) = 1
    /\ Len(delivered) = 2
    /\ deliveredKeys[1] = deliveredKeys[2]
    /\ deliveredKeys[1] \in addedKeys
    /\ incompleteTasks = 2

(***************************************************************************)
(* C38: no worker sends on inTasks or doneTasks after the queue goroutine  *)
(* has closed them: while a worker holds a task, and so has a send ahead   *)
(* of it, the queue is in its loop with a task incomplete; when a channel  *)
(* is closed every worker is back in its loop or has left it.              *)
(***************************************************************************)
C38_NoSendAfterClose ==
    /\ \A w \in Workers :
          busy(w) => /\ ~queueReturned
                     /\ ~outClosed /\ ~doneClosed /\ ~inClosed
                     /\ qpc = "loop" /\ incompleteTasks > 0
    /\ queueReturned => \A w \in Workers : worker[w].pc \in {"idle", "exited"}

\* the three channels are closed after a crawl in which workers sent on
\* inTasks and on doneTasks
C38_Witness ==
    /\ inClosed /\ doneClosed /\ outClosed
    /\ Len(mem) > Len(initialURLs)
    /\ doneSignals >= 2
    /\ lastIn = "none"
    /\ \E w \in Workers : worker[w].pc = "exited"

(***************************************************************************)
(* C39: every document stored during a crawl has a key that is the key of  *)
(* an initial URL or of a URL accepted by FollowURL: following a redirect  *)
(* never causes a URL outside the admitted set to be fetched and stored.   *)
(***************************************************************************)
\* the URLs the crawl admits: the initial ones and those FollowURL accepts
admittedURL(u) == taskKey(u) \in initialKeys \/ FollowURL(u)

\* in this step storeResponse stores the response to worker w's request
storesResponse(w) ==
    /\ worker[w].pc = "do"
    /\ worker'[w] # worker[w]
    /\ ~(worker'[w].pc = "done" /\ worker'[w].err = "error")

\* the URL the client requests after n redirects from u
RECURSIVE redirectedFrom(_, _)
redirectedFrom(u, n) == IF n = 0 THEN u ELSE redirectTarget(redirectedFrom(u, n - 1))

\* C39, as stated
C39_StoredKeysAdmitted ==
    [][\A w \in Workers : storesResponse(w) => admittedURL(worker[w].cur)]_vars

\* C39, amended: a stored document has the key of the URL of a task, which
\* is an initial URL or one accepted by FollowURL, or that of a URL the
\* server redirected the fetch of such a URL to; FollowURL is not asked
\* about the targets of redirects
C39_StoredKeysAdmittedOrRedirected ==
    [][\A w \in Workers :
          storesResponse(w) =>
              LET t == mem[worker[w].task]
              IN  /\ admittedURL(t.downloadURL)
                  /\ taskKey(t.downloadURL) = t.key
                  /\ worker[w].cur = redirectedFrom(t.downloadURL, worker[w].via)
                  /\ worker[w].via = 0 => admittedURL(worker[w].cur)]_vars

\* the document of a redirect target that is neither an initial URL nor
\* accepted by FollowURL has been stored and is being rewritten
C39_RedirectTargetStored ==
    \E w \in Workers :
        /\ worker[w].pc = "rewrite"
        /\ worker[w].via = 1
        /\ ~admittedURL(worker[w].cur)
        /\ admittedURL(mem[worker[w].task].downloadURL)

(***************************************************************************)
(* processResponse: what the claims speak of                               *)
(***************************************************************************)
hasDocument == ret.doc # noDocument
storedMeta == ret.doc.Metadata

\* the metadata fields storeResponse names are those of the response: the
\* URL of its request, the key of that URL, the start time and the headers
namedFieldsFaithful ==
    /\ storedMeta.URL = String(Parse(arg.resp.Request.URL))
    /\ storedMeta.Key = Key(Parse(arg.resp.Request.URL))
    /\ storedMeta.DownloadStartedTime = arg.startTime
    /\ storedMeta.Headers = arg.resp.Header

\* C31: every document the fetch coordinator stores records the response
\* it came from faithfully: its metadata carries the response's status
\* line, status code and protocol version together with the request URL,
\* the canonical key, the fetch start time and the headers
C31_MetadataIsFaithful ==
    hasDocument =>
        /\ storedMeta.Status = arg.resp.Status
        /\ storedMeta.StatusCode = arg.resp.StatusCode
        /\ storedMeta.Proto = arg.resp.Proto
        /\ namedFieldsFaithful

\* what holds of the stored metadata: URL, key, start time and headers are
\* those of the response, and the status line, the status code and the
\* protocol version are empty
C31_StatusLeftEmpty ==
    hasDocument =>
        /\ namedFieldsFaithful
        /\ storedMeta.Status = "" /\ storedMeta.StatusCode = 0 /\ storedMeta.Proto = ""

\* the response 404 Not Found over HTTP/2.0 is stored with no status
C31_NotFoundStoredWithoutStatus ==
    /\ hasDocument
    /\ ret.pc = "returned" /\ ret.err = "nil"
    /\ arg.resp.StatusCode = 404 /\ arg.resp.Proto = "HTTP/2.0"
    /\ storedMeta.StatusCode = 0 /\ storedMeta.Status = "" /\ storedMeta.Proto = ""
    /\ storedMeta.Key = Key(Parse(rootURL))

\* the reference the callback was given in its i-th call, and whether its
\* value and its base parse
given(i) == arg.resp.Body[i]
valueParses(i) == parseReference(TrimSpace(given(i).Value)).err = "nil"
baseParses(i) == given(i).Base = <<>> \/ parseReference(given(i).Base).err = "nil"

\* C34: the link-discovery callback that the fetch coordinator passes to
\* the rewriter returns ErrNotModified for every URL it is given: when the
\* reference fails to parse, when FollowURL is nil or rejects it, and when
\* it is admitted and offered to the queue
C34_AlwaysNotModified ==
    \A i \in DOMAIN ret.returned : ret.returned[i].err = "ErrNotModified"

\* what holds of the callback: it returns ErrNotModified for a reference
\* that parses and whose base parses, whether FollowURL is nil, rejects it
\* or admits it; for a reference that does not parse it returns the empty
\* string and nil, and for a base that does not parse an error
C34_NotModifiedWhenParsed ==
    \A i \in DOMAIN ret.returned :
        /\ (valueParses(i) /\ baseParses(i)) => ret.returned[i].err = "ErrNotModified"
        /\ ~valueParses(i) => ret.returned[i] = [value |-> "", err |-> "nil"]
        /\ (valueParses(i) /\ ~baseParses(i)) => ret.returned[i].err = "parsing base url"

\* the callback returned the empty string and nil for the reference ":",
\* and the rewriter went on to the next reference, which was offered
C34_EmptyReplacementReturned ==
    /\ Len(ret.returned) = 2
    /\ given(1).Value = <<":">>
    /\ ret.returned[1] = [value |-> "", err |-> "nil"]
    /\ ret.returned[2].err = "ErrNotModified"
    /\ Len(ret.newTasks) = 1

supportedResponse == supportedContentType(ParseMediaType(arg.resp.Header.ContentType))

\* C40: a task for a URL discovered in a response R is offered to the
\* queue only after R's document has been stored; if storing R fails, or
\* R's media type is not supported, no URL of R is offered, and for an
\* unsupported media type the body is still stored and the task ends
\* without error
C40_OfferedOnlyAfterStored ==
    /\ ret.pc = "storeResponse" => (ret.newTasks = <<>> /\ ret.returned = <<>>)
    /\ (ret.newTasks # <<>> \/ ret.returned # <<>> \/ ret.pc = "rewrite") =>
          /\ hasDocument
          /\ ret.doc.Body = arg.resp.Body
          /\ supportedResponse
    /\ ~hasDocument => (ret.newTasks = <<>> /\ ret.returned = <<>>)
    /\ (ret.pc = "returned" /\ ret.err \in {"store failed", "close failed"}) =>
          (ret.newTasks = <<>> /\ ret.returned = <<>>)
    /\ ~supportedResponse =>
          /\ ret.newTasks = <<>> /\ ret.returned = <<>>
          /\ ret.pc # "rewrite"
          /\ (ret.pc = "returned" /\ hasDocument /\ ret.err # "close failed") =>
                (ret.err = "nil" /\ ret.doc.Body = arg.resp.Body)
          /\ (ret.pc = "returned" /\ ret.err = "nil") => hasDocument
    /\ \A i \in DOMAIN ret.newTasks :
          ret.newTasks[i].key = Key(ret.newTasks[i].downloadURL)

\* a stored page has offered the tasks of its two references: the first
\* resolved against the URL of the request, the second against the base
C40_Witness ==
    /\ hasDocument /\ supportedResponse
    /\ ret.pc = "returned" /\ ret.err = "nil"
    /\ Len(ret.newTasks) = 2
    /\ arg.resp.Request.URL = documentURL
    /\ given(1) = [Value |-> <<" ", "b", " ">>, Base |-> <<>>]
    /\ given(2) = [Value |-> <<"b">>, Base |-> <<"HTTPS://EXAMPLE.COM:443#top">>]
    /\ ret.newTasks[1].key # ret.newTasks[2].key

\* a response of an unsupported media type whose body holds references is
\* stored, and processResponse has returned nil without an offer
C40_UnsupportedStored ==
    /\ hasDocument /\ ~supportedResponse
    /\ arg.resp.Header.ContentType = "text/html; charset=latin1"
    /\ Len(arg.resp.Body) = 2
    /\ ret.pc = "returned" /\ ret.err = "nil"
    /\ ret.newTasks = <<>>

(***************************************************************************)
(* The URL tokens and the push-back of the CSS rewriter: what the claims   *)
(* speak of                                                                *)
(***************************************************************************)
\* the style sheet begins with a URL token, which the loop of CSS handles
firstToken == arg.input.tokens[1]
beginsWithURLToken == isStyle /\ arg.input.tokens # <<>> /\ typeAt(1) = "URL"

\* the number of pieces of white space of a token from place i on, and
\* back from place i
RECURSIVE spaceFrom(_, _)
spaceFrom(token, i) ==
    IF i <= Len(token) /\ token[i] \in {" ", "\t", "\n"} THEN 1 + spaceFrom(token, i + 1) ELSE 0
RECURSIVE spaceBack(_, _)
spaceBack(token, i) ==
    IF i >= 1 /\ token[i] \in {" ", "\t", "\n"} THEN 1 + spaceBack(token, i - 1) ELSE 0

\* url( and the white space after it; the white space before ) and )
leadingBytes(token) == SubSeq(token, 1, 1 + spaceFrom(token, 2))
trailingBytes(token) == SubSeq(token, Len(token) - spaceBack(token, Len(token) - 1), Len(token))

\* the URL of the token as the style sheet writes it, quotes included
writtenURL(token) ==
    SubSeq(token, Len(leadingBytes(token)) + 1, Len(token) - Len(trailingBytes(token)))

\* the value of the URL: the quotes taken off
valueOfURL(token) ==
    IF writtenURL(token)[1] \in {"\"", "'"}
    THEN SubSeq(writtenURL(token), 2, Len(writtenURL(token)) - 1)
    ELSE writtenURL(token)

\* the new value of each callback as a CSS string in double quotes
expectedString(cb, value) ==
    CASE cb = "REPLACED" -> <<"\"", "REPLACED", "\"">>
      [] cb = "quotes" -> <<"\"", "\\22 ", "q", "\\a ", "\\5c ", "\"">>
      [] OTHER -> <<"\"", "new/">> \o value \o <<"\"">>

\* the callbacks that return a new value for the URL of the first token
returnsNewValue ==
    \/ arg.urlRewriter \in {"REPLACED", "quotes"}
    \/ arg.urlRewriter \in {"moves a", "fails on b"} /\ marked(valueOfURL(firstToken.text), FirstURLs)
    \/ arg.urlRewriter = "moves b" /\ marked(valueOfURL(firstToken.text), SecondURLs)

expectedURLToken ==
    leadingBytes(firstToken.text)
        \o expectedString(arg.urlRewriter, valueOfURL(firstToken.text))
        \o trailingBytes(firstToken.text)

C32_UnquotedRewritten ==
    /\ ret.n = 1 /\ beginsWithURLToken /\ arg.urlRewriter = "moves b"
    /\ firstToken.text = <<"url(", "\t", "b.png", " ", "\n", ")">>
    /\ Len(arg.input.tokens) = 1
    /\ ret.lc.w = <<"url(", "\t", "\"", "new/", "b.png", "\"", " ", "\n", ")">>

\* the style sheet begins with @import, and the token at this place is the
\* one processImport pushes back: the token after @import unless it is
\* white space, else the token after the white space unless it is a string
\* or a URL
pushedBackPlace == IF typeAt(2) = "Whitespace" THEN 3 ELSE 2
pushesBack ==
    /\ isStyle /\ importAt(1)
    /\ typeAt(pushedBackPlace) # "none"
    /\ pushedBackPlace = 3 => typeAt(3) \notin {"String", "URL"}

\* the bytes of the tokens up to the pushed back one, which the loop of CSS
\* copies when it is no URL and no @import
bytesUpToPushedBack ==
    concat([i \in 1..pushedBackPlace |-> arg.input.tokens[i].text])
copiedByLoop == typeAt(pushedBackPlace) # "URL" /\ ~importAt(pushedBackPlace)

\* C33: the CSS push-back is a one-slot buffer that loses nothing: when the
\* token after @import (or after @import and whitespace) is not one the
\* import handler consumes, it is pushed back and the next call to next()
\* returns exactly that token with its text, so it and every following
\* token are processed by the main loop and reach the output; the rewrite
\* does not end before the end of input
C33_PushBackLosesNothing ==
    (ret.n = 1 /\ pushesBack) =>
        /\ ret.err = "nil" => ret.lc.lexer = <<>>
        /\ (ret.err = "nil" /\ copiedByLoop) =>
              /\ Len(ret.lc.w) >= Len(bytesUpToPushedBack)
              /\ SubSeq(ret.lc.w, 1, Len(bytesUpToPushedBack)) = bytesUpToPushedBack
        /\ (ret.err = "nil" /\ arg.urlRewriter = "ErrNotModified") => ret.lc.w = styleBytes

\* what holds instead: after a push-back CSS returns nil at once, with the
\* pushed back token and all tokens after it neither read nor written
C33_PushBackEndsRewrite ==
    (ret.n = 1 /\ pushesBack) =>
        /\ ret.err = "nil"
        /\ ret.lc.lexer = SubSeq(arg.input.tokens, pushedBackPlace + 1, Len(arg.input.tokens))
        /\ ret.lc.w = concat([i \in 1..(pushedBackPlace - 1) |-> arg.input.tokens[i].text])
        /\ ret.lc.calls = <<>>

\* CSS has returned nil for @import print;url(a.png) with @import and the
\* white space written and the URL token unread
C33_RestUnread ==
    /\ ret.n = 1 /\ pushesBack /\ arg.urlRewriter = "REPLACED"
    /\ pushedBackPlace = 3
    /\ typeAt(3) = "Ident" /\ typeAt(4) = "Semicolon" /\ typeAt(5) = "URL"
    /\ ret.err = "nil"
    /\ ret.lc.w = <<"@import", " ">>
    /\ Len(ret.lc.lexer) = 2
    /\ ret.lc.calls = <<>>
====
